---- MODULE Spec2Model ----
(***************************************************************************)
(* A model of go-yaaf/yaaf-common-mysql (src/mysql/mysql_database.go):     *)
(* the MySqlDatabase store, its connectivity (Ping, Close, the SSH tunnel  *)
(* accept task) and its document CRUD / bulk operations with change        *)
(* publication.                                                            *)
(***************************************************************************)
EXTENDS Integers, Sequences, FiniteSets, TLC

VARIABLES
    \* ---- Ping (one call of MySqlDatabase.Ping) ----
    pingPc,             \* position of the Ping call: "call", "check", "sleep", "done"
    argRetries,         \* the retries argument as passed by the caller
    argInterval,        \* the intervalInSeconds argument as passed by the caller
    retries,            \* the local retries after clamping
    intervalInSeconds,  \* the local intervalInSeconds after clamping
    try,                \* the loop variable of Ping
    pingLog,            \* what the call did so far: <<"probe", healthy>> and <<"sleep", seconds>>
    pingRet,            \* the returned error: "none" (no value yet), "nil", "error"
    \* ---- stores and their connection handles ----
    stores,             \* the MySqlDatabase values constructed so far: [pgDb, ssh, tunnel, bus, uri]
    handles,            \* every handle ever opened: [kind, state], state "open" or "closed"
    acceptTasks,        \* listeners (handle ids) whose accept goroutine is running
    exited,             \* the process was ended by log.Fatalf
    factoryRet,         \* what the last factory / clone call returned: [store, err]
    openOut,            \* how the last factory / clone call's openConnection ended ("none": no call yet)
    \* ---- Close (one call per store at a time) ----
    closePc,            \* per store: "idle", "tunnel", "ssh", "pgDb", "done"
    closeLog,           \* per store: the layers the running call closed, <<layer, handle, err>>
    closeRet,           \* per store: "none", "nil", "error"
    closeCalls,         \* per store: Close calls started so far
    \* ---- the backend and one caller of the document operations ----
    tmpl,               \* the entity type's TABLE(): a table-name template, as tokens
    now,                \* the wall clock: [year, month]
    db,                 \* the backend's committed tables: table name -> row id -> document
    txBuf,              \* writes made inside the open transaction, not yet committed
    db0,                \* the tables as they were when the running call started
    pc,                 \* the caller's position: "idle", a step of an operation, "done"
    call,               \* the running call: [op, ents, id, keys, ids, fields]
    frame,              \* the call's locals: [deleted, idx, tx]
    callLog,            \* what the call did so far: queries, statements, publishChange calls
    ret,                \* the call's return values: [ent, err, affected, list]
    \* ---- the accept goroutine of store 1's listener and its connection pairs ----
    acceptPc,           \* "none" (no tunnel), "accept" (in listener.Accept), "dial" (in client.Dial)
    pairs,              \* accepted connections: [local, remote, up, down]
    \* ---- one call of parseConnectionString and one call of tableName ----
    dbUri,              \* the connection URI: [parses, scheme, hostPort, params]
    parsed,             \* what parseConnectionString returned: [db, ssh, err]
    tblArgs,            \* the arguments of tableName: [table, keys]
    tblName,            \* what tableName returned ("none": not called yet)
    \* ---- concurrent calls of BulkSetFields on one store ----
    clockMs,            \* time.Now().UnixMilli()
    bsPc,               \* per call: "idle", "create", "load", "update", "drop", "done"
    bsValues,           \* per call: the values argument, a set of <<id, value>> pairs
    tmpTable,           \* per call: the local tmpTable ("" before it is computed)
    temps,              \* the backend's temporary tables: <<connection, name, creating call, rows>>
    bsLog,              \* per call: its statements, <<statement, connection, table, creating call of the table, error>>
    bsRet               \* per call: <<affected, error>>

pingVars == <<pingPc, argRetries, argInterval, retries, intervalInSeconds, try, pingLog, pingRet>>
connVars == <<stores, handles, acceptTasks, exited, factoryRet, openOut>>
closeVars == <<closePc, closeLog, closeRet, closeCalls>>
crudVars == <<tmpl, now, db, txBuf, db0, pc, call, frame, callLog, ret>>

tunnelVars == <<acceptPc, pairs>>

fnVars == <<dbUri, parsed, tblArgs, tblName>>

bulkSetVars == <<clockMs, bsPc, bsValues, tmpTable, temps, bsLog, bsRet>>

vars == <<pingVars, connVars, closeVars, crudVars, tunnelVars, fnVars, bulkSetVars>>

\* ------------------------------------------------------------------ bounds
MaxRetriesArg == 12
MaxIntervalArg == 62
MaxStores == 2
MaxCloseCalls == 2
MaxBatch == 2
MaxConns == 2
MaxIds == 2
MaxFields == 2
MaxBulkSetCalls == 2
MaxPoolConns == 2
MaxMillis == 1

\* ------------------------------------------------------------------ records
\* The records of the model. Each lists its fields in the order in which the
\* field names first occur in this module, the order in which TLC keeps a
\* record's fields.

\* dbs := &MySqlDatabase{pgDb: db, uri: URI, ssh: sshCli, tunnel: tunnel, bus: bus}
MySqlDatabase(pgDb, ssh, tunnel, bus, uri) ==
    [pgDb |-> pgDb, ssh |-> ssh, tunnel |-> tunnel, bus |-> bus, uri |-> uri]

\* A connection handle, just opened.
Handle(kind) == [kind |-> kind, state |-> "open"]

\* An entity: its ID(), its KEY() and the rest of its content.
E(id, key, val) == [id |-> id, key |-> key, val |-> val]

\* time.Now(), as far as tableName reads it.
Clock(year, month) == [year |-> year, month |-> month]

\* The return values of a document operation (list: the result of List).
Ret(ent, err, affected) == [ent |-> ent, err |-> err, affected |-> affected, list |-> <<>>]

\* A call of a document operation with its arguments (ids: the ids of List;
\* fields: the <<field, value>> pairs of SetField / SetFields in the order the
\* call visits them; store: the store it is called on, the first one unless
\* stated).
Call(op, ents, id, keys) ==
    [id |-> id, op |-> op, ents |-> ents, keys |-> keys, ids |-> <<>>, fields |-> <<>>, store |-> 1]

\* The locals of a document operation.
Frame(deleted, idx, tx) == [deleted |-> deleted, idx |-> idx, tx |-> tx]

\* The return values of a factory: the store (Nil for nil) and whether err != nil.
FactoryRet(err, store) == [err |-> err, store |-> store]

\* An accepted connection of the tunnel.
Pair(local, remote, up, down) == [local |-> local, remote |-> remote, up |-> up, down |-> down]

\* The *SSHConfig result of parseConnectionString: nil, or the configuration.
SSHConfig(isNil, Host, Port, Username, Password) ==
    [isNil |-> isNil, Host |-> Host, Port |-> Port, Username |-> Username, Password |-> Password]

\* The results of parseConnectionString: whether dbCfg is nil, sshCfg, err.
Parsed(dbNil, ssh, err) == [ssh |-> ssh, err |-> err, dbNil |-> dbNil]

\* A connection URI after url.Parse.
Uri(parses, scheme, hostPort, params) ==
    [parses |-> parses, scheme |-> scheme, hostPort |-> hostPort, params |-> params]

\* The arguments of a tableName call.
TblArgs(table, keys) == [keys |-> keys, table |-> table]

\* No BulkSetFields call was made yet, the backend holds no temporary table.
BulkSetCalls == 1..MaxBulkSetCalls
BulkSetIdle ==
    /\ clockMs = 0
    /\ bsPc = [c \in BulkSetCalls |-> "idle"]
    /\ bsValues = [c \in BulkSetCalls |-> {}]
    /\ tmpTable = [c \in BulkSetCalls |-> ""]
    /\ temps = {}
    /\ bsLog = [c \in BulkSetCalls |-> <<>>]
    /\ bsRet = [c \in BulkSetCalls |-> <<0, "none">>]

\* ------------------------------------------------------------------ program constants
MaxRetries == 10
MaxInterval == 60

\* No Ping call is running.
PingIdle ==
    /\ pingPc = "done"
    /\ argRetries = 0
    /\ argInterval = 0
    /\ retries = 0
    /\ intervalInSeconds = 0
    /\ try = 0
    /\ pingLog = <<>>
    /\ pingRet = "none"

\* ================================================================== parseConnectionString
\* A connection URI after url.Parse: whether it parses, its scheme, whether its
\* host is of the form host:port, and its query parameters (url.Values: a
\* parameter that is absent has no values).
ParamNames == {"ssh_host", "ssh_port", "ssh_user", "ssh_pwd"}
Schemes == {"mysql", "MySQL", "postgres"}

\* strings.ToLower on the schemes.
ToLower(scheme) == IF scheme = "MySQL" THEN "mysql" ELSE scheme

\* _, ok := params[name]
Has(params, name) == params[name] # <<>>

\* Parameter values; a port value is a sequence of characters.
HostValues == {"", "bastion"}
PortValues == { <<>>, <<"2", "2">>, <<"2", "a">>, <<"0", "7">> }
UserValues == {"tunnel"}
PwdValues == {"secret"}

DigitOf(c) ==
    CASE c = "0" -> 0 [] c = "1" -> 1 [] c = "2" -> 2 [] c = "3" -> 3 [] c = "4" -> 4
      [] c = "5" -> 5 [] c = "6" -> 6 [] c = "7" -> 7 [] c = "8" -> 8 [] c = "9" -> 9
      [] OTHER -> -1

RECURSIVE AtoiDigits(_, _)
AtoiDigits(cs, acc) ==
    IF cs = <<>> THEN acc ELSE AtoiDigits(Tail(cs), 10 * acc + DigitOf(Head(cs)))

\* sshCfg.Port, _ = strconv.Atoi(sshPort): the number, or 0 when Atoi fails.
Atoi(cs) ==
    IF cs = <<>> \/ \E k \in DOMAIN cs : DigitOf(cs[k]) < 0 THEN 0
    ELSE AtoiDigits(cs, 0)

NilSSHConfig == SSHConfig(TRUE, "", 0, "", "")

NotParsed == Parsed(TRUE, NilSSHConfig, "none")

SshRequestedNonEmpty(params) == Has(params, "ssh_host") /\ params["ssh_host"][1] # ""

\* if _, ok := params["ssh_host"]; ok { ... } else { return dbCfg, nil, nil }
SshRequested(params) == Has(params, "ssh_host")

parseConnectionString(u) ==
    IF ~u.parses THEN Parsed(TRUE, NilSSHConfig, "parse")
    ELSE IF ToLower(u.scheme) # "mysql" THEN Parsed(TRUE, NilSSHConfig, "schema")
    ELSE IF ~u.hostPort THEN Parsed(TRUE, NilSSHConfig, "hostport")
    ELSE IF ~SshRequested(u.params) THEN Parsed(FALSE, NilSSHConfig, "nil")
    ELSE Parsed(FALSE,
                SSHConfig(FALSE,
                          u.params["ssh_host"][1],
                          IF Has(u.params, "ssh_port") THEN Atoi(u.params["ssh_port"][1]) ELSE 0,
                          IF Has(u.params, "ssh_user") THEN u.params["ssh_user"][1] ELSE "",
                          IF Has(u.params, "ssh_pwd") THEN u.params["ssh_pwd"][1] ELSE ""),
                "nil")

\* The URIs passed to the factories.
Uris ==
    { Uri(ps, sc, hp, [n \in ParamNames |->
                         CASE n = "ssh_host" -> h [] n = "ssh_port" -> pt
                           [] n = "ssh_user" -> us [] OTHER -> pw]) :
        ps \in BOOLEAN, sc \in Schemes, hp \in BOOLEAN,
        h \in {<<>>} \cup {<<v>> : v \in HostValues},
        pt \in {<<>>} \cup {<<v>> : v \in PortValues},
        us \in {<<>>} \cup {<<v>> : v \in UserValues},
        pw \in {<<>>} \cup {<<v>> : v \in PwdValues} }

\* No parseConnectionString or tableName call is followed.
FnIdle ==
    /\ dbUri = Uri(TRUE, "mysql", TRUE, [n \in ParamNames |-> <<>>])
    /\ parsed = NotParsed
    /\ tblArgs = TblArgs(<<>>, <<>>)
    /\ tblName = "none"

\* ================================================================== the store value
Nil == 0

\* The two shapes of connection URI: without and with an ssh_host parameter.
UriKinds == {"direct", "ssh"}

\* The value of the bus field: no message bus, or the injected one.
BusValues == {"nil", "bus"}


\* The accept goroutine of store 1's listener (if it has one) waits in Accept
\* and no connection has arrived.
TunnelIdle ==
    /\ acceptPc = IF stores[1].tunnel = Nil THEN "none" ELSE "accept"
    /\ pairs = <<>>

\* ================================================================== entities and documents
\* The entities the callers pass: two versions of an entity without a shard key
\* and two versions of an entity with shard key "k".
Entities == {E("a", "", "v1"), E("a", "", "v2"), E("b", "k", "v1"), E("b", "k", "v2")}

\* A nil Entity.
NoEntity == E("", "", "nil")

RowIds == {e.id : e \in Entities}
IdArgs == RowIds \cup {""}
KeyArgs == {<<>>, <<"">>, <<"k">>}

\* entity.Marshal / entity.Unmarshal: the JSON document of an entity and back.
Marshal(e) == <<"json", e.id, e.key, e.val>>
Unmarshal(d) == E(d[2], d[3], d[4])

\* A cell of a table: no row, a row whose data does not decode, or a document.
NoRow == <<>>
Corrupt == <<"garbage">>
Decodes(d) == Len(d) = 4 /\ d[1] = "json"
Cells(id) == {NoRow, Corrupt} \cup {Marshal(e) : e \in {x \in Entities : x.id = id}}

\* ================================================================== tableName
\* Table-name templates as token sequences; a placeholder is one token.
Templates == { <<"users">>, <<"events_", "{{year}}">> }
Clocks == { Clock("2026", "11") }

\* strings.Replace(s, old, new, -1) on tokens.
ReplaceAll(toks, old, new) == [i \in DOMAIN toks |-> IF toks[i] = old THEN new ELSE toks[i]]

PlaceHolderOneBased(idx) == "{{" \o ToString(idx + 1) \o "}}"

\* fmt.Sprintf("{{%d}}", idx)
PlaceHolder(idx) == "{{" \o ToString(idx) \o "}}"

\* for idx, key := range keys { tblName = strings.Replace(tblName, placeHolder, key, -1) }
RECURSIVE ReplaceKeys(_, _, _)
ReplaceKeys(toks, keys, idx) ==
    IF idx >= Len(keys) THEN toks
    ELSE ReplaceKeys(ReplaceAll(toks, PlaceHolder(idx), keys[idx + 1]), keys, idx + 1)

RECURSIVE Flatten(_)
Flatten(toks) == IF toks = <<>> THEN "" ELSE Head(toks) \o Flatten(Tail(toks))

\* tableName(table, keys...) at clock value clk.
tableNameAt(table, keys, clk) ==
    IF Len(keys) = 0 THEN Flatten(table)
    ELSE LET t1 == ReplaceAll(table, "{{accountId}}", "{{0}}")
             t2 == ReplaceKeys(t1, keys, 0)
             t3 == ReplaceAll(t2, "{{year}}", clk.year)
             t4 == ReplaceAll(t3, "{{month}}", clk.month)
         IN  Flatten(t4)

tableName(table, keys) == tableNameAt(table, keys, now)

\* The physical tables the operations can address for a template.
TableNames(table, clk) == {tableNameAt(table, ks, clk) : ks \in KeyArgs}

\* ================================================================== the backend
\* How a statement can end: it takes effect, it returns an error, or (a single
\* row write) it completes without error but the backend applies nothing and
\* reports zero rows affected.
QueryOutcomes == {"ok", "fail"}
ExecOutcomes == {"ok", "fail", "noop"}

NoRet == Ret(NoEntity, "none", 0)
NoCall == Call("none", <<>>, "", <<>>)
NoFrame == Frame(NoEntity, 0, "none")

SetCell(d, t, id, cell) == [d EXCEPT ![t] = [@ EXCEPT ![id] = cell]]

RECURSIVE SetCells(_, _, _)
SetCells(d, t, rows) ==
    IF rows = <<>> THEN d
    ELSE SetCells(SetCell(d, t, Head(rows)[1], Head(rows)[2]), t, Tail(rows))

\* The tables after the completed writes of a call's log, starting from d.
RECURSIVE Replay(_, _)
Replay(d, log) ==
    IF log = <<>> THEN d
    ELSE LET x == Head(log) IN
         IF x[1] = "exec" /\ x[6] = "ok" /\ x[7] > 0
           THEN Replay(SetCell(d, x[3], x[4], x[5]), Tail(log))
           ELSE IF x[1] = "execMulti" /\ x[6] = "ok" /\ x[7] > 0
             THEN Replay(SetCells(d, x[3], x[4]), Tail(log))
             ELSE Replay(d, Tail(log))

\* ================================================================== publishChange
PublishChangePropagating(err, delivered) == IF delivered THEN err ELSE "Publish"

\* if err := dbs.bus.Publish(&msg); err != nil { logger.Warn(...) }: publishChange
\* returns nothing, so the caller's error is what it was.
ErrAfterPublish(err, delivered) == err

\* Whether publishChange hands an event to the bus: if dbs.bus == nil || entity == nil { return }
Handed(bus, entity) == ~(bus = "nil" \/ entity = NoEntity)

\* The log entry of one publishChange(action, entity) call; delivered is the
\* outcome of bus.Publish (meaningful when the event is handed).
PublishEntry(bus, action, entity, delivered) ==
    <<"publish", action, entity, Handed(bus, entity), Handed(bus, entity) /\ delivered>>

\* The bus of the store the running call was made on (dbs.bus).
Bus == stores[call.store].bus

\* ================================================================== Get
\* Get(factory, entityID, keys...) against tables d when the query ends qout.
Get(d, entityID, keys, qout) ==
    IF entityID = "" THEN Ret(NoEntity, "EmptyId", 0)
    ELSE IF qout = "fail" THEN Ret(NoEntity, "Backend", 0)
    ELSE LET cell == d[tableName(tmpl, keys)][entityID] IN
         IF cell = NoRow THEN Ret(NoEntity, "NotFound", 0)
         ELSE IF ~Decodes(cell) THEN Ret(NoEntity, "Decode", 0)
         ELSE Ret(Unmarshal(cell), "nil", 0)

GetLogAlways(entityID, keys, qout) == << <<"query", tableName(tmpl, keys), entityID, qout>> >>

\* The query Get issues, as a log entry (none for an empty id).
GetLog(entityID, keys, qout) ==
    IF entityID = "" THEN <<>> ELSE << <<"query", tableName(tmpl, keys), entityID, qout>> >>

\* ================================================================== the caller
Start(c, nextPc) ==
    /\ pc = "idle"
    /\ call' = c
    /\ pc' = nextPc
    /\ frame' = NoFrame
    /\ callLog' = <<>>
    /\ ret' = NoRet
    /\ db0' = db
    /\ UNCHANGED <<tmpl, now, db, txBuf, pingVars, fnVars, tunnelVars, bulkSetVars, connVars, closeVars>>

\* The call returns r.
Return(r) ==
    /\ ret' = r
    /\ pc' = "done"

\* The caller takes the result and is ready for the next call.
Continue ==
    /\ pc = "done"
    /\ pc' = "idle"
    /\ call' = NoCall
    /\ frame' = NoFrame
    /\ callLog' = <<>>
    /\ ret' = NoRet
    /\ db0' = db
    /\ UNCHANGED <<tmpl, now, db, txBuf, pingVars, fnVars, tunnelVars, bulkSetVars, connVars, closeVars>>

GetCall(id, keys) == Start(Call("Get", <<>>, id, keys), "get")

GetStep ==
    /\ pc = "get"
    /\ \E qout \in QueryOutcomes :
        /\ callLog' = callLog \o GetLog(call.id, call.keys, qout)
        /\ Return(Get(db, call.id, call.keys, qout))
    /\ UNCHANGED <<tmpl, now, db, txBuf, db0, call, frame, pingVars, fnVars, tunnelVars, bulkSetVars, connVars, closeVars>>

\* ------------------------------------------------------------------ Insert, Update, Upsert
AffectedErrUnshadowed(op, affected) == IF affected = 0 THEN "NoRows" ELSE "nil"

\* The error the operation holds after reading RowsAffected. In Insert the
\* assignment `err = fmt.Errorf(...)` is to the err declared by
\* `if affected, err := result.RowsAffected()`, which shadows the named result:
\* the returned err stays nil.
AffectedErr(op, affected) ==
    IF op = "Insert" THEN "nil"
    ELSE IF affected = 0 THEN "NoRows" ELSE "nil"

\* Rows the statement of a single-entity write affects when it takes effect.
Affects(op, cell) ==
    CASE op = "Insert" -> IF cell = NoRow THEN 1 ELSE 0
      [] op = "Update" -> IF cell = NoRow THEN 0 ELSE 1
      [] op = "Upsert" -> 1
      [] op = "Delete" -> IF cell = NoRow THEN 0 ELSE 1

InsertCall(e) == Start(Call("Insert", <<e>>, e.id, <<e.key>>), "insert")
UpdateCall(e) == Start(Call("Update", <<e>>, e.id, <<e.key>>), "update")
UpsertCall(e) == Start(Call("Upsert", <<e>>, e.id, <<e.key>>), "upsert")

\* Marshal, then dbs.pgDb.Exec(SQL, entity.ID(), data) and RowsAffected, of
\* Insert / Update / Upsert. An INSERT of an existing id is a key violation.
WriteExec(op, myPc) ==
    /\ pc = myPc
    /\ LET e == call.ents[1]
           t == tableName(tmpl, <<e.key>>)
           cell == db[t][e.id]
       IN
       \/ \* Marshal fails: return
          /\ Return(Ret(NoEntity, "Marshal", 0))
          /\ UNCHANGED <<db, callLog>>
       \/ \E out \in ExecOutcomes :
            /\ (op = "Insert" /\ cell # NoRow) => out = "fail"
            /\ LET affected == IF out = "ok" THEN Affects(op, cell) ELSE 0
                   err == AffectedErr(op, affected)
               IN
               /\ callLog' = Append(callLog, <<"exec", op, t, e.id, Marshal(e), out, affected>>)
               /\ db' = IF affected > 0 THEN SetCell(db, t, e.id, Marshal(e)) ELSE db
               /\ IF out = "fail"
                    THEN Return(Ret(NoEntity, "Backend", 0))
                    ELSE IF op # "Insert" /\ err # "nil"
                      THEN Return(Ret(NoEntity, err, 0))
                      ELSE \* added = entity (updated = entity), then publishChange
                           /\ ret' = Ret(e, err, 0)
                           /\ pc' = "publish"
    /\ UNCHANGED <<tmpl, now, txBuf, db0, call, frame, pingVars, fnVars, tunnelVars, bulkSetVars, connVars, closeVars>>

InsertExec == WriteExec("Insert", "insert")
UpdateExec == WriteExec("Update", "update")
UpsertExec == WriteExec("Upsert", "upsert")

\* ------------------------------------------------------------------ Delete
IgnoreFetchError(er) == "delete"

\* deleted, er := dbs.Get(...); if er != nil { return er }
AfterFetch(er) == IF er # "nil" THEN "return" ELSE "delete"

DeleteCall(id, keys) == Start(Call("Delete", <<>>, id, keys), "fetch")

\* Delete's dbs.Get of the victim.
DeleteFetch ==
    /\ pc = "fetch"
    /\ \E qout \in QueryOutcomes :
        LET g == Get(db, call.id, call.keys, qout) IN
        /\ callLog' = callLog \o GetLog(call.id, call.keys, qout)
        /\ frame' = [frame EXCEPT !.deleted = g.ent]
        /\ IF AfterFetch(g.err) = "return"
             THEN Return(Ret(NoEntity, g.err, 0))
             ELSE /\ pc' = "delete"
                  /\ ret' = ret
    /\ UNCHANGED <<tmpl, now, db, txBuf, db0, call, pingVars, fnVars, tunnelVars, bulkSetVars, connVars, closeVars>>

\* Delete's dbs.pgDb.Exec(sqlDelete, entityID) and RowsAffected.
DeleteExec ==
    /\ pc = "delete"
    /\ call.id \in RowIds
    /\ LET t == tableName(tmpl, call.keys)
           cell == db[t][call.id]
       IN
       \E out \in ExecOutcomes :
          LET affected == IF out = "ok" THEN Affects("Delete", cell) ELSE 0
              err == AffectedErr("Delete", affected)
          IN
          /\ callLog' = Append(callLog, <<"exec", "Delete", t, call.id, NoRow, out, affected>>)
          /\ db' = IF affected > 0 THEN SetCell(db, t, call.id, NoRow) ELSE db
          /\ IF out = "fail"
               THEN Return(Ret(NoEntity, "Backend", 0))
               ELSE IF err # "nil"
                 THEN Return(Ret(NoEntity, err, 0))
                 ELSE /\ ret' = Ret(NoEntity, "nil", 0)
                      /\ pc' = "publish"
    /\ UNCHANGED <<tmpl, now, txBuf, db0, call, frame, pingVars, fnVars, tunnelVars, bulkSetVars, connVars, closeVars>>

\* ------------------------------------------------------------------ the publishChange call of a single-entity operation
ActionOf(op) ==
    CASE op = "Insert" -> "AddEntity"
      [] op = "Delete" -> "DeleteEntity"
      [] OTHER -> "UpdateEntity"

\* dbs.publishChange(action, entity), then return.
PublishOne ==
    /\ pc = "publish"
    /\ \E delivered \in BOOLEAN :
        LET ent == IF call.op = "Delete" THEN frame.deleted ELSE call.ents[1] IN
        /\ callLog' = Append(callLog, PublishEntry(Bus, ActionOf(call.op), ent, delivered))
        /\ Return([ret EXCEPT !.err = ErrAfterPublish(ret.err, delivered)])
    /\ UNCHANGED <<tmpl, now, db, txBuf, db0, call, frame, pingVars, fnVars, tunnelVars, bulkSetVars, connVars, closeVars>>

\* ------------------------------------------------------------------ BulkInsert
\* All sequences over S of length 0..n.
RECURSIVE SeqsUpTo(_, _)
SeqsUpTo(S, n) ==
    IF n = 0 THEN {<<>>}
    ELSE LET shorter == SeqsUpTo(S, n - 1) IN
         shorter \cup {Append(q, x) : q \in {r \in shorter : Len(r) = n - 1}, x \in S}

Batches == SeqsUpTo(Entities, MaxBatch)
TxOutcomes == {"ok", "fail"}
StmtOutcomes == {"ok", "fail"}
BulkOps == {"BulkInsert", "BulkUpdate", "BulkUpsert"}

\* The tables after the buffered writes of a transaction are committed.
RECURSIVE ApplyTx(_, _)
ApplyTx(d, buf) ==
    IF buf = <<>> THEN d
    ELSE ApplyTx(SetCell(d, Head(buf)[1], Head(buf)[2], Head(buf)[3]), Tail(buf))

PublishReversed(idx, n) == n - idx + 1

\* for _, entity := range entities { dbs.publishChange(action, entity) }:
\* the entity published in iteration idx of n.
PublishIndex(idx, n) == idx

BulkActionOf(op) == IF op = "BulkInsert" THEN "AddEntity" ELSE "UpdateEntity"

BulkInsertCall(batch) == Start(Call("BulkInsert", batch, "", <<>>), "binsert")

\* BulkInsert up to its statement: one multi-row INSERT into the table of
\* entities[0]; an id already in the table or twice in the batch is a key violation.
BulkInsertExec ==
    /\ pc = "binsert"
    /\ LET n == Len(call.ents) IN
       IF n = 0
         THEN /\ Return(Ret(NoEntity, "nil", 0))
              /\ UNCHANGED <<db, callLog, frame>>
         ELSE LET t == tableName(tmpl, <<call.ents[1].key>>)
                  rows == [i \in 1..n |-> <<call.ents[i].id, Marshal(call.ents[i])>>]
                  conflict == \/ \E i \in 1..n : db[t][call.ents[i].id] # NoRow
                              \/ \E i, j \in 1..n : i # j /\ call.ents[i].id = call.ents[j].id
              IN
              \E out \in ExecOutcomes :
                 /\ conflict => out = "fail"
                 /\ LET affected == IF out = "ok" THEN n ELSE 0 IN
                    /\ callLog' = Append(callLog, <<"execMulti", "BulkInsert", t, rows, <<>>, out, affected>>)
                    /\ db' = IF out = "ok" THEN SetCells(db, t, rows) ELSE db
                    /\ IF out = "fail"
                         THEN /\ Return(Ret(NoEntity, "Backend", 0))
                              /\ frame' = frame
                         ELSE IF affected = 0
                           THEN /\ Return(Ret(NoEntity, "NoRows", 0))
                                /\ frame' = frame
                           ELSE /\ ret' = Ret(NoEntity, "nil", affected)
                                /\ frame' = [frame EXCEPT !.idx = 1]
                                /\ pc' = "bpublish"
    /\ UNCHANGED <<tmpl, now, txBuf, db0, call, pingVars, fnVars, tunnelVars, bulkSetVars, connVars, closeVars>>

\* ------------------------------------------------------------------ BulkUpdate, BulkUpsert
BulkUpdateCall(batch) == Start(Call("BulkUpdate", batch, "", <<>>), "begin")
BulkUpsertCall(batch) == Start(Call("BulkUpsert", batch, "", <<>>), "begin")

\* if len(entities) == 0 { return 0, nil }; tx, err = dbs.pgDb.Begin()
BulkBegin ==
    /\ pc = "begin"
    /\ IF Len(call.ents) = 0
         THEN /\ Return(Ret(NoEntity, "nil", 0))
              /\ UNCHANGED <<callLog, frame>>
         ELSE \E out \in TxOutcomes :
              /\ callLog' = Append(callLog, <<"tx", "begin", out>>)
              /\ IF out = "fail"
                   THEN /\ Return(Ret(NoEntity, "Backend", 0))
                        /\ frame' = frame
                   ELSE /\ frame' = [frame EXCEPT !.tx = "open", !.idx = 1]
                        /\ pc' = "stmt"
                        /\ ret' = ret
    /\ UNCHANGED <<tmpl, now, db, txBuf, db0, call, pingVars, fnVars, tunnelVars, bulkSetVars, connVars, closeVars>>

\* One iteration of the loop: dbs.pgDb.Exec(SQL, entity.ID(), data). The
\* statement is executed on the pool (dbs.pgDb), not on tx: it is committed at
\* once and is no part of the transaction. On an error: tx.Rollback(), return 0, err.
BulkStmt ==
    /\ pc = "stmt"
    /\ LET e == call.ents[frame.idx]
           t == tableName(tmpl, <<e.key>>)
           cell == db[t][e.id]
           kind == IF call.op = "BulkUpdate" THEN "Update" ELSE "Upsert"
       IN
       \E out \in StmtOutcomes :
          LET affected == IF out = "ok" THEN Affects(kind, cell) ELSE 0 IN
          /\ db' = IF affected > 0 THEN SetCell(db, t, e.id, Marshal(e)) ELSE db
          /\ IF out = "fail"
               THEN /\ callLog' = callLog \o << <<"exec", call.op, t, e.id, Marshal(e), out, affected>>,
                                                 <<"tx", "rollback", "ok">> >>
                    /\ txBuf' = <<>>
                    /\ frame' = [frame EXCEPT !.tx = "rolledback"]
                    /\ Return(Ret(NoEntity, "Backend", 0))
               ELSE /\ callLog' = Append(callLog, <<"exec", call.op, t, e.id, Marshal(e), out, affected>>)
                    /\ txBuf' = txBuf
                    /\ frame' = [frame EXCEPT !.idx = @ + 1]
                    /\ pc' = IF frame.idx = Len(call.ents) THEN "commit" ELSE "stmt"
                    /\ ret' = ret
    /\ UNCHANGED <<tmpl, now, db0, call, pingVars, fnVars, tunnelVars, bulkSetVars, connVars, closeVars>>

BulkAffectedWritten(ents, log) ==
    Len(SelectSeq(log, LAMBDA x : x[1] = "exec" /\ x[7] > 0))

\* affected = int64(len(entities)): the count a committed BulkUpdate / BulkUpsert
\* returns is the length of the batch; the results of the statements are dropped.
BulkAffected(ents, log) == Len(ents)

\* tx.Commit(): on an error return (0, err), else affected = len(entities).
BulkCommit ==
    /\ pc = "commit"
    /\ \E out \in TxOutcomes :
        /\ callLog' = Append(callLog, <<"tx", "commit", out>>)
        /\ txBuf' = <<>>
        /\ IF out = "fail"
             THEN /\ db' = db
                  /\ frame' = [frame EXCEPT !.tx = "failed"]
                  /\ Return(Ret(NoEntity, "Backend", 0))
             ELSE /\ db' = ApplyTx(db, txBuf)
                  /\ frame' = [frame EXCEPT !.tx = "committed", !.idx = 1]
                  /\ ret' = Ret(NoEntity, "nil", BulkAffected(call.ents, callLog))
                  /\ pc' = "bpublish"
    /\ UNCHANGED <<tmpl, now, db0, call, pingVars, fnVars, tunnelVars, bulkSetVars, connVars, closeVars>>

\* One iteration of the publishing loop of a bulk operation; after the last
\* one the operation returns.
BulkPublish ==
    /\ pc = "bpublish"
    /\ \E delivered \in BOOLEAN :
        LET n == Len(call.ents)
            ent == call.ents[PublishIndex(frame.idx, n)]
        IN
        /\ callLog' = Append(callLog, PublishEntry(Bus, BulkActionOf(call.op), ent, delivered))
        /\ frame' = [frame EXCEPT !.idx = @ + 1]
        /\ ret' = [ret EXCEPT !.err = ErrAfterPublish(ret.err, delivered)]
        /\ pc' = IF frame.idx = n THEN "done" ELSE "bpublish"
    /\ UNCHANGED <<tmpl, now, db, txBuf, db0, call, pingVars, fnVars, tunnelVars, bulkSetVars, connVars, closeVars>>

\* ------------------------------------------------------------------ List
\* The orders in which a result set can deliver the rows of a set of ids.
Orders(S) == {q \in [1..Cardinality(S) -> S] : \A x \in S : \E k \in 1..Cardinality(S) : q[k] = x}

\* The id lists passed to List.
IdLists == {q \in SeqsUpTo(RowIds, MaxIds) : \A i, j \in DOMAIN q : i # j => q[i] # q[j]}

\* The ids of a list that have a row in table t of d.
Matching(d, t, ids) == {ids[k] : k \in DOMAIN ids} \cap {id \in RowIds : d[t][id] # NoRow}

\* for rows.Next() { ...; if err = Unmarshal(data, &entity); err == nil { list = append(list, entity) } }
\* over the cells of the result set in the order delivered: err is the named
\* result and is assigned by every Unmarshal.
RECURSIVE ListLoop(_, _, _)
ListLoop(cells, list, err) ==
    IF cells = <<>> THEN [Ret(NoEntity, err, 0) EXCEPT !.list = list]
    ELSE IF Decodes(Head(cells))
           THEN ListLoop(Tail(cells), Append(list, Unmarshal(Head(cells))), "nil")
           ELSE ListLoop(Tail(cells), list, "Decode")

ListCall(ids, keys) == Start([Call("List", <<>>, "", keys) EXCEPT !.ids = ids], "list")

\* List from its first statement to its return.
ListStep ==
    /\ pc = "list"
    /\ IF Len(call.ids) = 0
         THEN /\ Return(Ret(NoEntity, "nil", 0))
              /\ UNCHANGED callLog
         ELSE LET table == tableName(tmpl, call.keys) IN
              \E qout \in QueryOutcomes :
                /\ callLog' = Append(callLog, <<"query", table, call.ids, qout>>)
                /\ IF qout = "fail"
                     THEN Return(Ret(NoEntity, "Backend", 0))
                     ELSE \E order \in Orders(Matching(db, table, call.ids)) :
                            Return(ListLoop([k \in DOMAIN order |-> db[table][order[k]]], <<>>, "nil"))
    /\ UNCHANGED <<tmpl, now, db, txBuf, db0, call, frame, pingVars, fnVars, tunnelVars, bulkSetVars, connVars, closeVars>>

\* ------------------------------------------------------------------ SetField, SetFields
\* The fields of an entity's document that callers patch, and the values they pass.
Fields == {"key", "val"}
FieldValues(field) == IF field = "val" THEN {"v1", "v2"} ELSE {"k"}
FieldPairs == {<<f, v>> : f \in {"val"}, v \in FieldValues("val")}
                \cup {<<f, v>> : f \in {"key"}, v \in FieldValues("key")}

\* The maps passed to SetFields, each in every order `range` can visit it.
FieldMaps ==
    {q \in SeqsUpTo(FieldPairs, MaxFields) : \A i, j \in DOMAIN q : i # j => q[i][1] # q[j][1]}

JsonbSetOnly(cell, field, value) ==
    IF ~Decodes(cell) THEN cell
    ELSE IF field = "key" THEN <<"json", "", value, "">> ELSE <<"json", "", "", value>>

\* jsonb_set(data, '{field}', $1, false) on a row's document: the field is
\* replaced, the rest of the document stays.
JsonbSet(cell, field, value) ==
    IF ~Decodes(cell) THEN cell
    ELSE IF field = "key" THEN [cell EXCEPT ![3] = value] ELSE [cell EXCEPT ![4] = value]

SetFieldsGoesOn(er) == FALSE

\* if er := dbs.SetField(...); er != nil { return er }
SetFieldsStops(er) == er # "nil"

SetFieldErrOfFetch(fer) == fer

\* if updated, fer := dbs.Get(...); fer == nil { publish }; return: fer is
\* local to the if statement, the named result err is still the nil of Exec.
SetFieldErr(fer) == "nil"

SetFieldCall(id, pair, keys) ==
    Start([Call("SetField", <<>>, id, keys) EXCEPT !.fields = <<pair>>], "setexec")

\* SetFields: an empty map returns nil at once.
SetFieldsCall(id, fields, keys) ==
    Start([Call("SetFields", <<>>, id, keys) EXCEPT !.fields = fields],
          IF fields = <<>> THEN "setnone" ELSE "setexec")

SetFieldsNone ==
    /\ pc = "setnone"
    /\ Return(Ret(NoEntity, "nil", 0))
    /\ UNCHANGED <<tmpl, now, db, txBuf, db0, call, frame, callLog, pingVars, fnVars, tunnelVars, bulkSetVars, connVars, closeVars>>

\* SetField's UPDATE ... SET data = jsonb_set(...) WHERE id = $2 for the next
\* field; the rows affected are not read.
SetFieldExec ==
    /\ pc = "setexec"
    /\ LET table == tableName(tmpl, call.keys)
           pair == call.fields[frame.idx + 1]
       IN \E out \in {"ok", "fail"} :
            LET hasRow == call.id \in RowIds /\ db[table][call.id] # NoRow
                cell == IF hasRow THEN JsonbSet(db[table][call.id], pair[1], pair[2]) ELSE NoRow
                affected == IF out = "ok" /\ hasRow THEN 1 ELSE 0
            IN /\ callLog' = Append(callLog, <<"exec", "SetField", table, call.id, cell, out, affected>>)
               /\ db' = IF affected = 1 THEN SetCell(db, table, call.id, cell) ELSE db
               /\ frame' = [frame EXCEPT !.idx = @ + 1]
               /\ IF out = "fail"
                    THEN IF call.op = "SetField" \/ SetFieldsStops("Backend")
                           THEN Return(Ret(NoEntity, "Backend", 0))
                           ELSE IF frame.idx + 1 = Len(call.fields)
                                  THEN Return(Ret(NoEntity, "nil", 0))
                                  ELSE /\ pc' = "setexec"
                                       /\ ret' = ret
                    ELSE /\ pc' = "setfetch"
                         /\ ret' = ret
    /\ UNCHANGED <<tmpl, now, txBuf, db0, call, pingVars, fnVars, tunnelVars, bulkSetVars, connVars, closeVars>>

\* if updated, fer := dbs.Get(...); fer == nil { dbs.publishChange(UpdateEntity, updated) }
\* then SetField returns nil; SetFields goes on with the next field or returns.
SetFieldFetch ==
    /\ pc = "setfetch"
    /\ \E qout \in QueryOutcomes, delivered \in BOOLEAN :
        LET g == Get(db, call.id, call.keys, qout) IN
        /\ callLog' = callLog \o GetLog(call.id, call.keys, qout)
                        \o (IF g.err = "nil"
                              THEN << PublishEntry(Bus, "UpdateEntity", g.ent, delivered) >>
                              ELSE <<>>)
        /\ LET er == SetFieldErr(g.err) IN
           IF frame.idx = Len(call.fields) \/ SetFieldsStops(er)
             THEN Return(Ret(NoEntity, er, 0))
             ELSE /\ pc' = "setexec"
                  /\ ret' = ret
    /\ UNCHANGED <<tmpl, now, db, txBuf, db0, call, frame, pingVars, fnVars, tunnelVars, bulkSetVars, connVars, closeVars>>

FieldsNext ==
    \/ \E ids \in IdLists, keys \in KeyArgs : ListCall(ids, keys)
    \/ ListStep
    \/ \E id \in IdArgs, pair \in FieldPairs, keys \in KeyArgs : SetFieldCall(id, pair, keys)
    \/ \E id \in IdArgs, fields \in FieldMaps, keys \in KeyArgs : SetFieldsCall(id, fields, keys)
    \/ SetFieldsNone
    \/ SetFieldExec
    \/ SetFieldFetch
    \/ Continue

\* ------------------------------------------------------------------ BulkDelete
BulkDeleteCall(ids, keys) ==
    Start([Call("BulkDelete", <<>>, "", keys) EXCEPT !.ids = ids], "bdlist")

\* if len(entityIDs) == 0 { return 0, nil }; deleted, e := dbs.List(factory,
\* entityIDs, keys...); if e != nil { return 0, e }
BulkDeleteList ==
    /\ pc = "bdlist"
    /\ IF Len(call.ids) = 0
         THEN /\ Return(Ret(NoEntity, "nil", 0))
              /\ UNCHANGED <<callLog, frame>>
         ELSE LET table == tableName(tmpl, call.keys) IN
              \E qout \in QueryOutcomes :
                /\ callLog' = Append(callLog, <<"query", table, call.ids, qout>>)
                /\ IF qout = "fail"
                     THEN /\ Return(Ret(NoEntity, "Backend", 0))
                          /\ frame' = frame
                     ELSE \E order \in Orders(Matching(db, table, call.ids)) :
                            LET r == ListLoop([k \in DOMAIN order |-> db[table][order[k]]], <<>>, "nil") IN
                            IF r.err # "nil"
                              THEN /\ Return(Ret(NoEntity, r.err, 0))
                                   /\ frame' = frame
                              ELSE /\ frame' = [frame EXCEPT !.deleted = r.list, !.idx = 1]
                                   /\ pc' = "bdexec"
                                   /\ ret' = ret
    /\ UNCHANGED <<tmpl, now, db, txBuf, db0, call, pingVars, fnVars, tunnelVars, bulkSetVars, connVars, closeVars>>

\* result, err = dbs.pgDb.Exec(sqlBulkDelete, entityIDs) and RowsAffected: one
\* statement removes every row whose id is in the list; zero rows is an error.
BulkDeleteExec ==
    /\ pc = "bdexec"
    /\ LET table == tableName(tmpl, call.keys)
           victims == Matching(db, table, call.ids)
           rows == [k \in 1..Len(call.ids) |-> <<call.ids[k], NoRow>>]
       IN \E out \in {"ok", "fail"} :
            LET affected == IF out = "ok" THEN Cardinality(victims) ELSE 0 IN
            /\ callLog' = Append(callLog, <<"execMulti", "BulkDelete", table, rows, <<>>, out, affected>>)
            /\ db' = IF affected > 0 THEN SetCells(db, table, rows) ELSE db
            /\ IF out = "fail"
                 THEN Return(Ret(NoEntity, "Backend", 0))
                 ELSE IF affected = 0
                   THEN Return(Ret(NoEntity, "NoRows", 0))
                   ELSE /\ ret' = Ret(NoEntity, "nil", affected)
                        /\ pc' = IF frame.deleted = <<>> THEN "done" ELSE "bdpublish"
    /\ UNCHANGED <<tmpl, now, txBuf, db0, call, frame, pingVars, fnVars, tunnelVars, bulkSetVars, connVars, closeVars>>

\* for _, ent := range deleted { dbs.publishChange(DeleteEntity, ent) }: one
\* iteration; after the last one BulkDelete returns.
BulkDeletePublish ==
    /\ pc = "bdpublish"
    /\ \E delivered \in BOOLEAN :
        /\ callLog' = Append(callLog, PublishEntry(Bus, "DeleteEntity", frame.deleted[frame.idx], delivered))
        /\ frame' = [frame EXCEPT !.idx = @ + 1]
        /\ ret' = ret
        /\ pc' = IF frame.idx = Len(frame.deleted) THEN "done" ELSE "bdpublish"
    /\ UNCHANGED <<tmpl, now, db, txBuf, db0, call, pingVars, fnVars, tunnelVars, bulkSetVars, connVars, closeVars>>

BulkDeleteNext ==
    \/ \E ids \in IdLists, keys \in KeyArgs : BulkDeleteCall(ids, keys)
    \/ BulkDeleteList
    \/ BulkDeleteExec
    \/ BulkDeletePublish
    \/ Continue

\* ------------------------------------------------------------------ concurrent callers
\* The statement of an Upsert made by another caller (another goroutine on
\* this store or a clone, or another process), committed between two
\* statements of the running Delete or SetField: dbs.pgDb.Exec hands each
\* statement to the pool on its own, no transaction or lock spans the two.
ConcurrentUpsert(e) ==
    /\ pc \in {"delete", "setfetch"}
    /\ db' = SetCell(db, tableName(tmpl, <<e.key>>), e.id, Marshal(e))
    /\ UNCHANGED <<tmpl, now, txBuf, db0, pc, call, frame, callLog, ret, pingVars, fnVars, tunnelVars, bulkSetVars, connVars, closeVars>>

RaceNext ==
    \/ \E id \in IdArgs, keys \in KeyArgs : DeleteCall(id, keys)
    \/ DeleteFetch
    \/ DeleteExec
    \/ PublishOne
    \/ \E id \in IdArgs, pair \in FieldPairs, keys \in KeyArgs : SetFieldCall(id, pair, keys)
    \/ SetFieldExec
    \/ SetFieldFetch
    \/ \E e \in Entities : ConcurrentUpsert(e)
    \/ Continue

\* ------------------------------------------------------------------ specification of the document operations
CrudIdle ==
    /\ tmpl = <<"users">>
    /\ now \in Clocks
    /\ db = [t \in TableNames(tmpl, now) |-> [id \in RowIds |-> NoRow]]
    /\ txBuf = <<>>
    /\ db0 = db
    /\ pc = "idle"
    /\ call = NoCall
    /\ frame = NoFrame
    /\ callLog = <<>>
    /\ ret = NoRet

\* The rows a table can hold when the store connects. The table named by the
\* unresolved template (addressed only by calls that pass no keys) holds, per
\* id, no row, an undecodable row or the first version of the entity without a
\* shard key; every other table holds any rows.
InitialRows(table, clk, t) ==
    {r \in [RowIds -> UNION {Cells(id) : id \in RowIds}] :
        \A id \in RowIds :
            /\ r[id] \in Cells(id)
            /\ (t = Flatten(table) /\ Cardinality(TableNames(table, clk)) > 1) =>
                  r[id] \in {NoRow, Corrupt, Marshal(E(id, "", "v1"))} \cap Cells(id) }

\* A store (with or without a message bus) connected to a backend whose tables
\* hold rows, the caller idle.
Init ==
    /\ PingIdle
    /\ \E bus \in BusValues :
        /\ stores = <<MySqlDatabase(1, Nil, Nil, bus, "direct")>>
        /\ handles = <<Handle("pgDb")>>
    /\ acceptTasks = {}
    /\ exited = FALSE
    /\ factoryRet = FactoryRet(FALSE, 1)
    /\ openOut = "none"
    /\ closePc = <<"idle">>
    /\ closeLog = << <<>> >>
    /\ closeRet = <<"none">>
    /\ closeCalls = <<0>>
    /\ tmpl \in Templates
    /\ now \in Clocks
    /\ db \in {d \in [TableNames(tmpl, now) -> [RowIds -> UNION {Cells(id) : id \in RowIds}]] :
                   \A t \in TableNames(tmpl, now) : d[t] \in InitialRows(tmpl, now, t)}
    /\ txBuf = <<>>
    /\ db0 = db
    /\ pc = "idle"
    /\ call = NoCall
    /\ frame = NoFrame
    /\ callLog = <<>>
    /\ ret = NoRet
    /\ TunnelIdle
    /\ BulkSetIdle
    /\ FnIdle

Next ==
    \/ \E id \in IdArgs, keys \in KeyArgs : GetCall(id, keys)
    \/ GetStep
    \/ \E e \in Entities : InsertCall(e)
    \/ \E e \in Entities : UpdateCall(e)
    \/ \E e \in Entities : UpsertCall(e)
    \/ InsertExec
    \/ UpdateExec
    \/ UpsertExec
    \/ \E id \in IdArgs, keys \in KeyArgs : DeleteCall(id, keys)
    \/ DeleteFetch
    \/ DeleteExec
    \/ PublishOne
    \/ \E batch \in Batches : BulkInsertCall(batch)
    \/ BulkInsertExec
    \/ \E batch \in Batches : BulkUpdateCall(batch)
    \/ \E batch \in Batches : BulkUpsertCall(batch)
    \/ BulkBegin
    \/ BulkStmt
    \/ BulkCommit
    \/ BulkPublish
    \/ Continue

Spec == Init /\ [][Next]_vars

\* List, SetField and SetFields on the same store and backend.
SpecFields == Init /\ [][FieldsNext]_vars

\* BulkDelete on the same store and backend.
SpecBulkDelete == Init /\ [][BulkDeleteNext]_vars

\* Delete and SetField while other callers write to the same tables.
SpecRace == Init /\ [][RaceNext]_vars

\* ================================================================== stores and handles
\* openConnection on a URI without ssh_host: sql.Open and a Ping, no tunnel.
\* The store holds one new pooled-connection handle and nil ssh / tunnel.
StoresAfterDirect(bus) ==
    Append(stores, MySqlDatabase(Len(handles) + 1, Nil, Nil, bus, "direct"))

\* openConnectionOverSSH: a new SSH client, a new listener with its accept
\* goroutine, and a new pooled-connection handle dialled at the listener.
StoresAfterSsh(bus) ==
    Append(stores, MySqlDatabase(Len(handles) + 3, Len(handles) + 1, Len(handles) + 2, bus, "ssh"))

\* The state in which no store operation is running on a single direct store
\* (used by the specifications that do not exercise the connection layer).
ConnIdle ==
    /\ stores = <<MySqlDatabase(1, Nil, Nil, "nil", "direct")>>
    /\ handles = <<Handle("pgDb")>>
    /\ acceptTasks = {}
    /\ exited = FALSE
    /\ factoryRet = FactoryRet(FALSE, 1)
    /\ openOut = "none"
    /\ closePc = <<"idle">>
    /\ closeLog = << <<>> >>
    /\ closeRet = <<"none">>
    /\ closeCalls = <<0>>

\* The state after NewMySqlDatabase / NewMySqlDatabaseWithMessageBus / NewMySqlStore
\* returned a store: a direct one, or one over an SSH tunnel.
ConnInit ==
    /\ \E uri \in UriKinds, bus \in BusValues :
        IF uri = "direct"
          THEN /\ stores = <<MySqlDatabase(1, Nil, Nil, bus, "direct")>>
               /\ handles = <<Handle("pgDb")>>
               /\ acceptTasks = {}
          ELSE /\ stores = <<MySqlDatabase(3, 1, 2, bus, "ssh")>>
               /\ handles = <<Handle("ssh"), Handle("tunnel"), Handle("pgDb")>>
               /\ acceptTasks = {2}
    /\ exited = FALSE
    /\ factoryRet = FactoryRet(FALSE, 1)
    /\ openOut = "none"
    /\ closePc = <<"idle">>
    /\ closeLog = << <<>> >>
    /\ closeRet = <<"none">>
    /\ closeCalls = <<0>>

\* What a factory call can meet while opening the connection.
OpenOutcomes(uri) ==
    IF uri = "direct" THEN {"ok", "openErr", "pingErr"}
    ELSE {"ok", "sshFatal", "listenFatal", "openErr"}

\* One factory call (NewMySqlStore, NewMySqlDatabase, NewMySqlDatabaseWithMessageBus)
\* on an already parsed URI, with the given bus for the new store.
Factory(uri, bus, out) ==
    /\ ~exited
    /\ Len(stores) < MaxStores
    /\ Len(handles) + 3 <= 3 * MaxStores   \* room for the handles of one more call
    /\ out \in OpenOutcomes(uri)
    /\ openOut' = out
    /\ IF uri = "direct"
         THEN IF out = "ok"
                THEN /\ stores' = StoresAfterDirect(bus)
                     /\ handles' = Append(handles, Handle("pgDb"))
                     /\ factoryRet' = FactoryRet(FALSE, Len(stores) + 1)
                     /\ UNCHANGED <<acceptTasks, exited>>
                ELSE \* sql.Open or cli.Ping failed: return nil, nil, nil, er
                     /\ factoryRet' = FactoryRet(TRUE, Nil)
                     /\ UNCHANGED <<stores, handles, acceptTasks, exited>>
         ELSE CASE out = "sshFatal" ->
                     \* connectSSH failed: log.Fatalf
                     /\ exited' = TRUE
                     /\ UNCHANGED <<stores, handles, acceptTasks, factoryRet>>
                [] out = "listenFatal" ->
                     \* the SSH client is connected, net.Listen failed: log.Fatalf
                     /\ handles' = Append(handles, Handle("ssh"))
                     /\ exited' = TRUE
                     /\ UNCHANGED <<stores, acceptTasks, factoryRet>>
                [] out = "openErr" ->
                     \* sql.Open failed after the tunnel is up: the error is returned,
                     \* the SSH client and the listener stay open
                     /\ handles' = handles \o <<Handle("ssh"), Handle("tunnel")>>
                     /\ acceptTasks' = acceptTasks \cup {Len(handles) + 2}
                     /\ factoryRet' = FactoryRet(TRUE, Nil)
                     /\ UNCHANGED <<stores, exited>>
                [] OTHER ->
                     /\ stores' = StoresAfterSsh(bus)
                     /\ handles' = handles \o <<Handle("ssh"), Handle("tunnel"), Handle("pgDb")>>
                     /\ acceptTasks' = acceptTasks \cup {Len(handles) + 2}
                     /\ factoryRet' = FactoryRet(FALSE, Len(stores) + 1)
                     /\ UNCHANGED exited
    /\ closePc' = IF Len(stores') > Len(stores) THEN Append(closePc, "idle") ELSE closePc
    /\ closeLog' = IF Len(stores') > Len(stores) THEN Append(closeLog, <<>>) ELSE closeLog
    /\ closeRet' = IF Len(stores') > Len(stores) THEN Append(closeRet, "none") ELSE closeRet
    /\ closeCalls' = IF Len(stores') > Len(stores) THEN Append(closeCalls, 0) ELSE closeCalls

\* return NewMySqlDatabaseWithMessageBus(dbs.uri, dbs.bus)
CloneDatabase(s) ==
    /\ \E out \in OpenOutcomes(stores[s].uri) : Factory(stores[s].uri, stores[s].bus, out)
    /\ UNCHANGED <<pingVars, fnVars, tunnelVars, bulkSetVars, crudVars>>

CloneDatastoreKeepsBus(s) ==
    /\ \E out \in OpenOutcomes(stores[s].uri) : Factory(stores[s].uri, stores[s].bus, out)
    /\ UNCHANGED <<pingVars, fnVars, tunnelVars, bulkSetVars, crudVars>>

\* return NewMySqlStore(dbs.uri)
CloneDatastore(s) ==
    /\ \E out \in OpenOutcomes(stores[s].uri) : Factory(stores[s].uri, "nil", out)
    /\ UNCHANGED <<pingVars, fnVars, tunnelVars, bulkSetVars, crudVars>>

\* The accept goroutine of listener l: Accept fails once the listener is closed,
\* and the goroutine calls log.Fatalf, which ends the process.
AcceptFatal(l) ==
    /\ ~exited
    /\ l \in acceptTasks
    /\ handles[l].state = "closed"
    /\ exited' = TRUE
    /\ UNCHANGED <<stores, handles, acceptTasks, factoryRet, openOut, closeVars, pingVars, fnVars, tunnelVars, bulkSetVars, crudVars>>

\* ================================================================== Close
CloseLayers == <<"tunnel", "ssh", "pgDb">>

ReturnCloseError(err) == [ret |-> IF err THEN "error" ELSE "nil", stop |-> err]

\* _ = dbs.<layer>.Close(): the error is discarded and Close goes on.
DiscardCloseError(err) == [ret |-> "nil", stop |-> FALSE]

\* The position after layer i of CloseLayers.
AfterLayer(i) == IF i < Len(CloseLayers) THEN CloseLayers[i + 1] ELSE "done"

\* A caller starts dbs.Close() on store s.
CloseCall(s) ==
    /\ ~exited
    /\ closePc[s] = "idle"
    /\ closeCalls[s] < MaxCloseCalls
    /\ closePc' = [closePc EXCEPT ![s] = CloseLayers[1]]
    /\ closeLog' = [closeLog EXCEPT ![s] = <<>>]
    /\ closeRet' = [closeRet EXCEPT ![s] = "none"]
    /\ closeCalls' = [closeCalls EXCEPT ![s] = @ + 1]
    /\ UNCHANGED <<connVars, pingVars, fnVars, tunnelVars, bulkSetVars, crudVars>>

\* if dbs.<layer> != nil { _ = dbs.<layer>.Close() }, for layer i of CloseLayers.
CloseLayer(s, i) ==
    /\ ~exited
    /\ closePc[s] = CloseLayers[i]
    /\ LET h == stores[s][CloseLayers[i]] IN
        IF h = Nil
          THEN /\ closePc' = [closePc EXCEPT ![s] = AfterLayer(i)]
               /\ closeRet' = [closeRet EXCEPT ![s] = IF AfterLayer(i) = "done" THEN "nil" ELSE @]
               /\ UNCHANGED <<closeLog, handles>>
          ELSE \E err \in BOOLEAN :
               LET r == DiscardCloseError(err) IN
               /\ handles' = [handles EXCEPT ![h].state = "closed"]
               /\ closeLog' = [closeLog EXCEPT ![s] = Append(@, <<CloseLayers[i], h, err>>)]
               /\ closePc' = [closePc EXCEPT ![s] =
                                IF r.stop THEN "done" ELSE AfterLayer(i)]
               /\ closeRet' = [closeRet EXCEPT ![s] =
                                IF r.stop \/ AfterLayer(i) = "done" THEN r.ret ELSE @]
    /\ UNCHANGED <<stores, acceptTasks, exited, factoryRet, openOut, closeCalls, pingVars, fnVars, tunnelVars, bulkSetVars, crudVars>>

\* Close has returned to its caller.
CloseReturn(s) ==
    /\ ~exited
    /\ closePc[s] = "done"
    /\ closePc' = [closePc EXCEPT ![s] = "idle"]
    /\ UNCHANGED <<closeLog, closeRet, closeCalls, connVars, pingVars, fnVars, tunnelVars, bulkSetVars, crudVars>>

CloseNext ==
    \/ \E s \in DOMAIN stores : CloneDatabase(s)
    \/ \E s \in DOMAIN stores : CloneDatastore(s)
    \/ \E s \in DOMAIN stores : CloseCall(s)
    \/ \E s \in DOMAIN stores, i \in DOMAIN CloseLayers : CloseLayer(s, i)
    \/ \E s \in DOMAIN stores : CloseReturn(s)
    \/ \E l \in DOMAIN handles : AcceptFatal(l)

CloseInit ==
    /\ ConnInit
    /\ CrudIdle
    /\ PingIdle
    /\ TunnelIdle
    /\ BulkSetIdle
    /\ FnIdle

SpecClose == CloseInit /\ [][CloseNext]_vars

\* ================================================================== writes through clones
\* Upsert and Delete called on store s.
UpsertVia(s, e) == Start([Call("Upsert", <<e>>, e.id, <<e.key>>) EXCEPT !.store = s], "upsert")
DeleteVia(s, id, keys) == Start([Call("Delete", <<>>, id, keys) EXCEPT !.store = s], "fetch")

CloneNext ==
    \/ \E s \in DOMAIN stores : CloneDatabase(s)
    \/ \E s \in DOMAIN stores : CloneDatastore(s)
    \/ \E s \in DOMAIN stores, e \in Entities : UpsertVia(s, e)
    \/ UpsertExec
    \/ \E s \in DOMAIN stores, id \in IdArgs, keys \in KeyArgs : DeleteVia(s, id, keys)
    \/ DeleteFetch
    \/ DeleteExec
    \/ PublishOne
    \/ Continue

\* A store with or without a bus, its clones, and writes made through any of them.
SpecClone == Init /\ [][CloneNext]_vars

\* ================================================================== BulkSetFields
\* Each element of BulkSetCalls is one call of BulkSetFields, made by a
\* goroutine of its own on the same store. Every dbs.pgDb.Exec runs on a
\* connection the pool picks; a temporary table belongs to the connection
\* (session) it was created on.
PoolConns == 1..MaxPoolConns

\* The values maps passed (field is the entity's val).
ValueMaps == { {}, {<<"a", "v2">>}, {<<"b", "v1">>}, {<<"a", "v2">>, <<"b", "v2">>} }

\* tmpTable := fmt.Sprintf("ch%d", time.Now().UnixMilli())
TempName(ms) == "ch" \o ToString(ms)

\* The temporary table of that name on connection k (none or one).
TempAt(k, name) == {t \in temps : t[1] = k /\ t[2] = name}

\* The call that created it (Nil when there is none).
CreatorOf(k, name) == IF TempAt(k, name) = {} THEN Nil ELSE (CHOOSE t \in TempAt(k, name) : TRUE)[3]

RowsOf(k, name) == IF TempAt(k, name) = {} THEN {} ELSE (CHOOSE t \in TempAt(k, name) : TRUE)[4]

BulkSetReturn(c, affected, err) ==
    /\ bsRet' = [bsRet EXCEPT ![c] = <<affected, err>>]
    /\ bsPc' = [bsPc EXCEPT ![c] = "done"]

\* The wall clock advances.
BulkSetTick ==
    /\ clockMs < MaxMillis
    /\ clockMs' = clockMs + 1
    /\ UNCHANGED <<bsPc, bsValues, tmpTable, temps, bsLog, bsRet, pingVars, connVars, closeVars, crudVars, tunnelVars, fnVars>>

\* if len(values) == 0 { return 0, nil }
BulkSetFieldsCall(c, values) ==
    /\ bsPc[c] = "idle"
    /\ bsValues' = [bsValues EXCEPT ![c] = values]
    /\ IF values = {}
         THEN BulkSetReturn(c, 0, "nil")
         ELSE /\ bsPc' = [bsPc EXCEPT ![c] = "create"]
              /\ bsRet' = bsRet
    /\ UNCHANGED <<clockMs, tmpTable, temps, bsLog, pingVars, connVars, closeVars, crudVars, tunnelVars, fnVars>>

\* The name from the clock, then Exec("create TEMP table <tmpTable> ..."); on
\* an error return 0, err.
BulkSetCreate(c) ==
    /\ bsPc[c] = "create"
    /\ \E k \in PoolConns, out \in StmtOutcomes :
        LET name == TempName(clockMs)
            err == IF out = "fail" THEN "Backend"
                   ELSE IF TempAt(k, name) # {} THEN "Exists" ELSE "nil"
        IN /\ tmpTable' = [tmpTable EXCEPT ![c] = name]
           /\ bsLog' = [bsLog EXCEPT ![c] =
                          Append(@, <<"create", k, name, IF err = "nil" THEN c ELSE CreatorOf(k, name), err>>)]
           /\ temps' = IF err = "nil" THEN temps \cup {<<k, name, c, {}>>} ELSE temps
           /\ IF err = "nil"
                THEN /\ bsPc' = [bsPc EXCEPT ![c] = "load"]
                     /\ bsRet' = bsRet
                ELSE BulkSetReturn(c, 0, err)
    /\ UNCHANGED <<clockMs, bsValues, pingVars, connVars, closeVars, crudVars, tunnelVars, fnVars>>

\* Exec(`INSERT INTO "<tmpTable>" (id, val) VALUES ...`); on an error return
\* 0, err: the deferred DROP is registered only further down.
BulkSetLoad(c) ==
    /\ bsPc[c] = "load"
    /\ \E k \in PoolConns, out \in StmtOutcomes :
        LET name == tmpTable[c]
            rows == RowsOf(k, name)
            err == IF out = "fail" THEN "Backend"
                   ELSE IF TempAt(k, name) = {} THEN "NoTable"
                   ELSE IF {r[1] : r \in rows} \cap {v[1] : v \in bsValues[c]} # {} THEN "Duplicate"
                   ELSE "nil"
        IN /\ bsLog' = [bsLog EXCEPT ![c] = Append(@, <<"load", k, name, CreatorOf(k, name), err>>)]
           /\ temps' = IF err = "nil"
                         THEN (temps \ TempAt(k, name))
                                \cup {<<k, name, CreatorOf(k, name), rows \cup bsValues[c]>>}
                         ELSE temps
           /\ IF err = "nil"
                THEN /\ bsPc' = [bsPc EXCEPT ![c] = "update"]
                     /\ bsRet' = bsRet
                ELSE BulkSetReturn(c, 0, err)
    /\ UNCHANGED <<clockMs, bsValues, tmpTable, pingVars, connVars, closeVars, crudVars, tunnelVars, fnVars>>

\* The deferred DROP is registered; Exec("UPDATE <table> SET data['<field>'] =
\* to_jsonb(<tmp>.val) FROM <tmp> WHERE <tmp>.id = <table>.id"): return 0, err
\* or result.RowsAffected(). The keys argument is drawn here, its only use.
BulkSetUpdate(c) ==
    /\ bsPc[c] = "update"
    /\ \E k \in PoolConns, out \in StmtOutcomes, keys \in KeyArgs :
        LET name == tmpTable[c]
            table == tableName(tmpl, keys)
            err == IF out = "fail" THEN "Backend"
                   ELSE IF TempAt(k, name) = {} THEN "NoTable" ELSE "nil"
            hit == {r \in RowsOf(k, name) : db[table][r[1]] # NoRow}
        IN /\ bsLog' = [bsLog EXCEPT ![c] = Append(@, <<"update", k, name, CreatorOf(k, name), err>>)]
           /\ db' = IF err = "nil"
                      THEN [db EXCEPT ![table] =
                              [id \in RowIds |->
                                  IF \E r \in hit : r[1] = id
                                    THEN JsonbSet(db[table][id], "val", (CHOOSE r \in hit : r[1] = id)[2])
                                    ELSE db[table][id]]]
                      ELSE db
           /\ bsRet' = [bsRet EXCEPT ![c] = IF err = "nil" THEN <<Cardinality(hit), "nil">> ELSE <<0, err>>]
           /\ bsPc' = [bsPc EXCEPT ![c] = "drop"]
    /\ UNCHANGED <<clockMs, bsValues, tmpTable, temps, tmpl, now, txBuf, db0, pc, call, frame, callLog, ret,
                   pingVars, connVars, closeVars, tunnelVars, fnVars>>

\* defer func() { _, _ = dbs.pgDb.Exec("DROP TABLE <tmpTable>") }(): the
\* error is dropped, then BulkSetFields returns.
BulkSetDrop(c) ==
    /\ bsPc[c] = "drop"
    /\ \E k \in PoolConns, out \in StmtOutcomes :
        LET name == tmpTable[c]
            err == IF out = "fail" THEN "Backend"
                   ELSE IF TempAt(k, name) = {} THEN "NoTable" ELSE "nil"
        IN /\ bsLog' = [bsLog EXCEPT ![c] = Append(@, <<"drop", k, name, CreatorOf(k, name), err>>)]
           /\ temps' = IF err = "nil" THEN temps \ TempAt(k, name) ELSE temps
           /\ bsPc' = [bsPc EXCEPT ![c] = "done"]
    /\ UNCHANGED <<clockMs, bsValues, tmpTable, bsRet, pingVars, connVars, closeVars, crudVars, tunnelVars, fnVars>>

BulkSetNext ==
    \/ BulkSetTick
    \/ \E c \in BulkSetCalls, values \in ValueMaps : BulkSetFieldsCall(c, values)
    \/ \E c \in BulkSetCalls : BulkSetCreate(c)
    \/ \E c \in BulkSetCalls : BulkSetLoad(c)
    \/ \E c \in BulkSetCalls : BulkSetUpdate(c)
    \/ \E c \in BulkSetCalls : BulkSetDrop(c)

\* A connected store without calls in progress, the table of the entity
\* holding any of the two entities.
BulkSetInit ==
    /\ PingIdle
    /\ ConnIdle
    /\ tmpl = <<"users">>
    /\ now \in Clocks
    /\ db \in [TableNames(tmpl, now) ->
                 {r \in [RowIds -> UNION {Cells(id) : id \in RowIds}] :
                     \A id \in RowIds : r[id] \in {NoRow} \cup {Marshal(e) : e \in {x \in Entities : x.id = id /\ x.val = "v1"}}}]
    /\ txBuf = <<>>
    /\ db0 = db
    /\ pc = "idle"
    /\ call = NoCall
    /\ frame = NoFrame
    /\ callLog = <<>>
    /\ ret = NoRet
    /\ TunnelIdle
    /\ BulkSetIdle
    /\ FnIdle

SpecBulkSet == BulkSetInit /\ [][BulkSetNext]_vars

\* ================================================================== the SSH tunnel
\* One accepted connection: the local connection returned by listener.Accept,
\* the remote connection returned by client.Dial ("dialing" until Dial returns,
\* "failed" if it returned an error), and the two relay tasks: up is the pair's
\* goroutine, which runs copyConn and in it io.Copy(remote, local); down is the
\* goroutine copyConn starts, which runs io.Copy(local, remote).

Directions == {"up", "down"}

NoDeferredClose(dir) == <<>>

\* The connections a relay task closes when its copy has returned, in the order
\* the deferred calls run (last deferred first).
\*   up:   defer localConn.Close(); defer remoteConn.Close()
\*   down: defer src.Close(); defer dst.Close()   with src = localConn, dst = remoteConn
DeferredClose(dir) == <<"remote", "local">>

\* The position of a task after it ran k of its deferred closes.
AfterDefer(dir, k) ==
    IF k >= Len(DeferredClose(dir)) THEN "done"
    ELSE IF k = 0 THEN "defer1" ELSE "defer2"

\* io.Copy returns once a connection of the pair is closed on this side.
CopyMustReturn(p) == pairs[p].local = "closed" \/ pairs[p].remote = "closed"

Running(l) ==
    /\ ~exited
    /\ l \in acceptTasks

\* localConn, err := listener.Accept() returns a connection.
TunnelAccept ==
    /\ Running(stores[1].tunnel)
    /\ handles[stores[1].tunnel].state = "open"
    /\ acceptPc = "accept"
    /\ Len(pairs) < MaxConns
    /\ pairs' = Append(pairs, Pair("open", "dialing", "idle", "idle"))
    /\ acceptPc' = "dial"
    /\ UNCHANGED <<connVars, closeVars, pingVars, fnVars, bulkSetVars, crudVars>>

\* remoteConn, err := client.Dial("tcp", remoteEndpoint): on an error the accept
\* goroutine calls log.Fatalf; otherwise it starts the pair's goroutine, whose
\* copyConn starts the second relay task, and goes back to Accept.
TunnelDial ==
    /\ Running(stores[1].tunnel)
    /\ acceptPc = "dial"
    /\ \E ok \in BOOLEAN :
        IF ok
          THEN /\ pairs' = [pairs EXCEPT ![Len(pairs)] = Pair("open", "open", "copy", "copy")]
               /\ acceptPc' = "accept"
               /\ UNCHANGED exited
          ELSE /\ pairs' = [pairs EXCEPT ![Len(pairs)].remote = "failed"]
               /\ exited' = TRUE
               /\ UNCHANGED acceptPc
    /\ UNCHANGED <<stores, handles, acceptTasks, factoryRet, openOut, closeVars, pingVars, fnVars, bulkSetVars, crudVars>>

\* io.Copy of one direction returns because a peer closed its end or a read or
\* write failed.
CopyEnds(p, dir) ==
    /\ ~exited
    /\ p \in DOMAIN pairs
    /\ pairs[p][dir] = "copy"
    /\ pairs' = [pairs EXCEPT ![p][dir] = AfterDefer(dir, 0)]
    /\ UNCHANGED <<acceptPc, connVars, closeVars, pingVars, fnVars, bulkSetVars, crudVars>>

\* io.Copy of one direction returns because a connection of the pair was closed
\* on this side.
CopyReturns(p, dir) ==
    /\ p \in DOMAIN pairs
    /\ CopyMustReturn(p)
    /\ CopyEnds(p, dir)

\* A relay task runs its next deferred Close.
DeferredStep(p, dir) ==
    /\ ~exited
    /\ p \in DOMAIN pairs
    /\ pairs[p][dir] \in {"defer1", "defer2"}
    /\ LET k == IF pairs[p][dir] = "defer1" THEN 1 ELSE 2 IN
        pairs' = [pairs EXCEPT ![p][DeferredClose(dir)[k]] = "closed",
                               ![p][dir] = AfterDefer(dir, k)]
    /\ UNCHANGED <<acceptPc, connVars, closeVars, pingVars, fnVars, bulkSetVars, crudVars>>

\* What a relay task does without waiting for a peer.
TaskStep(p, dir) == CopyReturns(p, dir) \/ DeferredStep(p, dir)

TunnelNext ==
    \/ TunnelAccept
    \/ TunnelDial
    \/ \E p \in DOMAIN pairs, dir \in Directions : CopyEnds(p, dir)
    \/ \E p \in DOMAIN pairs, dir \in Directions : DeferredStep(p, dir)

\* A store over an SSH tunnel has been constructed.
TunnelInit ==
    /\ PingIdle
    /\ CrudIdle
    /\ \E bus \in BusValues : stores = <<MySqlDatabase(3, 1, 2, bus, "ssh")>>
    /\ handles = <<Handle("ssh"), Handle("tunnel"), Handle("pgDb")>>
    /\ acceptTasks = {2}
    /\ exited = FALSE
    /\ factoryRet = FactoryRet(FALSE, 1)
    /\ openOut = "ok"
    /\ closePc = <<"idle">>
    /\ closeLog = << <<>> >>
    /\ closeRet = <<"none">>
    /\ closeCalls = <<0>>
    /\ TunnelIdle
    /\ BulkSetIdle
    /\ FnIdle

SpecTunnel == TunnelInit /\ [][TunnelNext]_vars

\* Every relay goroutine keeps being scheduled: a copy whose connection was
\* closed returns, and deferred calls run.
SpecTunnelFair ==
    /\ SpecTunnel
    /\ \A p \in 1..MaxConns, dir \in Directions : WF_vars(TaskStep(p, dir))


\* ================================================================== the pure functions
\* A factory is about to resolve its URI.
ParseInit ==
    /\ PingIdle
    /\ ConnIdle
    /\ CrudIdle
    /\ TunnelIdle
    /\ BulkSetIdle
    /\ dbUri \in Uris
    /\ parsed = NotParsed
    /\ tblArgs = TblArgs(<<>>, <<>>)
    /\ tblName = "none"

\* dbCfg, sshCfg, err := parseConnectionString(URI)
ParseCall ==
    /\ parsed = NotParsed
    /\ parsed' = parseConnectionString(dbUri)
    /\ UNCHANGED <<dbUri, tblArgs, tblName, pingVars, connVars, closeVars, crudVars, tunnelVars, bulkSetVars>>

\* The caller drops the result.
ParseDone ==
    /\ parsed # NotParsed
    /\ parsed' = NotParsed
    /\ UNCHANGED <<dbUri, tblArgs, tblName, pingVars, connVars, closeVars, crudVars, tunnelVars, bulkSetVars>>

ParseNext == ParseCall \/ ParseDone

SpecParse == ParseInit /\ [][ParseNext]_vars

\* The templates and shard-key lists tableName is called with. Shard keys are
\* plain values: none has the form of a placeholder.
TableTemplates ==
    { <<"users">>,
      <<"events_", "{{year}}", "_", "{{0}}">>,
      <<"events_", "{{year}}", "_", "{{month}}">>,
      <<"acc_", "{{accountId}}">>,
      <<"acc_", "{{accountId}}", "_", "{{0}}">>,
      <<"s_", "{{1}}", "_", "{{0}}">>,
      <<"s_", "{{2}}", "_", "{{month}}">> }
ShardKeyLists ==
    { <<>>, <<"">>, <<"acct1">>, <<"acct2">>, <<"acct1", "eu">>, <<"acct2", "eu">>,
      <<"acct1", "">>, <<"acct1", "eu", "x">> }

TableNameInit ==
    /\ PingIdle
    /\ ConnIdle
    /\ CrudIdle
    /\ TunnelIdle
    /\ BulkSetIdle
    /\ dbUri = Uri(TRUE, "mysql", TRUE, [n \in ParamNames |-> <<>>])
    /\ parsed = NotParsed
    /\ tblArgs \in {TblArgs(t, ks) : t \in TableTemplates, ks \in ShardKeyLists}
    /\ tblName = "none"

\* tableName(table, keys...)
TableNameCall ==
    /\ tblName = "none"
    /\ tblName' = tableName(tblArgs.table, tblArgs.keys)
    /\ UNCHANGED <<dbUri, parsed, tblArgs, pingVars, connVars, closeVars, crudVars, tunnelVars, bulkSetVars>>

\* The caller drops the result.
TableNameDone ==
    /\ tblName # "none"
    /\ tblName' = "none"
    /\ UNCHANGED <<dbUri, parsed, tblArgs, pingVars, connVars, closeVars, crudVars, tunnelVars, bulkSetVars>>

TableNameNext == TableNameCall \/ TableNameDone

SpecTableName == TableNameInit /\ [][TableNameNext]_vars

\* ================================================================== Ping
ClampRetriesNoCap(r) == r

\* if retries > 10 { retries = 10 }
ClampRetries(r) == IF r > MaxRetries THEN MaxRetries ELSE r

\* if intervalInSeconds > 60 { intervalInSeconds = 60 }
ClampInterval(i) == IF i > MaxInterval THEN MaxInterval ELSE i

LoopCondAtLeastOnce(t, r) == t <= r \/ t = 1

LoopCondOffByOne(t, r) == t < r

\* for try := 1; try <= int(retries); try++
LoopCond(t, r) == t <= r

PingInit ==
    /\ ConnIdle
    /\ CrudIdle
    /\ TunnelIdle
    /\ BulkSetIdle
    /\ FnIdle
    /\ pingPc = "call"
    /\ argRetries \in 0..MaxRetriesArg
    /\ argInterval \in 0..MaxIntervalArg
    /\ retries = 0
    /\ intervalInSeconds = 0
    /\ try = 0
    /\ pingLog = <<>>
    /\ pingRet = "none"

\* Entry of Ping: both arguments are clamped, the loop variable starts at 1.
PingEnter ==
    /\ pingPc = "call"
    /\ retries' = ClampRetries(argRetries)
    /\ intervalInSeconds' = ClampInterval(argInterval)
    /\ try' = 1
    /\ pingPc' = "check"
    /\ UNCHANGED <<argRetries, argInterval, pingLog, pingRet>>
    /\ UNCHANGED <<connVars, closeVars, crudVars, tunnelVars, bulkSetVars, fnVars>>

\* One iteration's dbs.pgDb.Ping(): the backend answers healthy or not.
PingProbe ==
    /\ pingPc = "check"
    /\ LoopCond(try, retries)
    /\ \E healthy \in BOOLEAN :
        /\ pingLog' = Append(pingLog, <<"probe", healthy>>)
        /\ IF healthy
             THEN /\ pingRet' = "nil"
                  /\ pingPc' = "done"
             ELSE /\ pingRet' = pingRet
                  /\ pingPc' = "sleep"
    /\ UNCHANGED <<argRetries, argInterval, retries, intervalInSeconds, try>>
    /\ UNCHANGED <<connVars, closeVars, crudVars, tunnelVars, bulkSetVars, fnVars>>

\* time.Sleep(time.Second * intervalInSeconds), then try++.
PingSleep ==
    /\ pingPc = "sleep"
    /\ pingLog' = Append(pingLog, <<"sleep", intervalInSeconds>>)
    /\ try' = try + 1
    /\ pingPc' = "check"
    /\ UNCHANGED <<argRetries, argInterval, retries, intervalInSeconds, pingRet>>
    /\ UNCHANGED <<connVars, closeVars, crudVars, tunnelVars, bulkSetVars, fnVars>>

\* The loop condition fails: return fmt.Errorf("could not establish database connection").
PingGiveUp ==
    /\ pingPc = "check"
    /\ ~LoopCond(try, retries)
    /\ pingRet' = "error"
    /\ pingPc' = "done"
    /\ UNCHANGED <<argRetries, argInterval, retries, intervalInSeconds, try, pingLog>>
    /\ UNCHANGED <<connVars, closeVars, crudVars, tunnelVars, bulkSetVars, fnVars>>

PingNext == PingEnter \/ PingProbe \/ PingSleep \/ PingGiveUp

\* A sequence's entries of one kind, and the sum of the seconds slept.
RECURSIVE SumSleeps(_)
SumSleeps(log) ==
    IF log = <<>> THEN 0
    ELSE (IF Head(log)[1] = "sleep" THEN Head(log)[2] ELSE 0) + SumSleeps(Tail(log))

Probes(log) == SelectSeq(log, LAMBDA e : e[1] = "probe")
Sleeps(log) == SelectSeq(log, LAMBDA e : e[1] = "sleep")
Min(a, b) == IF a < b THEN a ELSE b

SpecPing == PingInit /\ [][PingNext]_vars

\* The calling goroutine keeps running and every probe and sleep returns.
SpecPingFair == SpecPing /\ WF_vars(PingNext)

\* ------------------------------------------------------------------ claims about Ping

\* C8: Ping(retries, interval) makes at most min(retries, 10) probes; a healthy
\* probe is the last thing the call does and makes it return nil; consecutive
\* probes are separated by one sleep of min(interval, 60) seconds, taken after a
\* failed probe; an error is returned only once min(retries, 10) probes have all
\* failed, so arguments above the caps are clamped and never rejected.
PingContract ==
    LET p == Probes(pingLog)
        n == Len(pingLog)
    IN  /\ Len(p) <= Min(argRetries, 10)
        /\ \A k \in 1..n :
            /\ pingLog[k] = <<"probe", TRUE>> =>
                  k = n /\ pingPc = "done" /\ pingRet = "nil"
            /\ pingLog[k][1] = "sleep" =>
                  /\ pingLog[k][2] = Min(argInterval, 60)
                  /\ k > 1
                  /\ pingLog[k - 1] = <<"probe", FALSE>>
            /\ (pingLog[k][1] = "probe" /\ k > 1) => pingLog[k - 1][1] = "sleep"
        /\ pingPc = "done" => pingRet \in {"nil", "error"}
        /\ pingPc # "done" => pingRet = "none"
        /\ pingRet = "nil" => n > 0 /\ pingLog[n] = <<"probe", TRUE>>
        /\ pingRet = "error" =>
              /\ Len(p) = Min(argRetries, 10)
              /\ \A k \in 1..Len(p) : p[k][2] = FALSE

\* A call with both arguments above their caps that succeeded after retrying.
PingContractWitness ==
    /\ pingPc = "done"
    /\ argRetries > 10
    /\ argInterval > 60
    /\ pingRet = "nil"
    /\ Len(Probes(pingLog)) = 10

\* C9: every Ping call returns; with retries = 3 and interval = 1 against a
\* backend that is never healthy it returns an error after 3 failed probes and
\* 3 seconds of sleeping in total.
PingTerminates ==
    /\ <>(pingPc = "done")
    /\ [](( /\ pingPc = "done"
            /\ argRetries = 3
            /\ argInterval = 1
            /\ \A k \in 1..Len(pingLog) : pingLog[k] # <<"probe", TRUE>> )
          => ( /\ pingRet = "error"
               /\ Len(Probes(pingLog)) = 3
               /\ SumSleeps(pingLog) = 3 ))

\* Ping(3, 1) has returned an error from a backend that was never healthy.
PingTerminatesWitness ==
    /\ pingPc = "done"
    /\ argRetries = 3
    /\ argInterval = 1
    /\ pingRet = "error"
    /\ SumSleeps(pingLog) = 3

\* ------------------------------------------------------------------ claims about Close

\* The layers store s holds, in the order Close visits them.
ExpectedLayers(s) == SelectSeq(CloseLayers, LAMBDA l : stores[s][l] # Nil)
ClosedLayers(s) == [k \in 1..Len(closeLog[s]) |-> closeLog[s][k][1]]
IsPrefix(a, b) == Len(a) <= Len(b) /\ \A k \in 1..Len(a) : a[k] = b[k]

\* C10: Close closes the listener, then the SSH session, then the pooled
\* connections, each only when the store holds it; whatever errors the layers'
\* closes report, a Close that returns has closed every layer the store holds
\* and returns nil.
CloseContract ==
    \A s \in DOMAIN stores :
        /\ IsPrefix(ClosedLayers(s), ExpectedLayers(s))
        /\ \A k \in 1..Len(closeLog[s]) :
              /\ closeLog[s][k][2] = stores[s][closeLog[s][k][1]]
              /\ handles[closeLog[s][k][2]].state = "closed"
        /\ closePc[s] = "done" =>
              /\ ClosedLayers(s) = ExpectedLayers(s)
              /\ closeRet[s] = "nil"
        /\ closeRet[s] \in {"none", "nil"}

\* A Close on a tunnelled store returned after the listener's close reported an
\* error, having closed all three layers.
CloseContractWitness ==
    \E s \in DOMAIN stores :
        /\ closePc[s] = "done"
        /\ stores[s].tunnel # Nil
        /\ Len(closeLog[s]) = 3
        /\ closeLog[s][1][3] = TRUE
        /\ closeRet[s] = "nil"

\* ------------------------------------------------------------------ claims about clones

\* The handles store s holds.
HandlesOf(s) == {stores[s][l] : l \in {"pgDb", "ssh", "tunnel"}} \ {Nil}

\* A handle is usable while it is open and the process runs.
Usable(h) == handles[h].state = "open" /\ ~exited

\* The handles of a store and of every other store are disjoint, and a store
\* over a tunnel holds all three layers.
ClonesShareNoHandle ==
    \A s \in DOMAIN stores :
        /\ HandlesOf(s) # {}
        /\ stores[s].uri = "ssh" => Cardinality(HandlesOf(s)) = 3
        /\ \A t \in DOMAIN stores : s # t => HandlesOf(s) \cap HandlesOf(t) = {}

\* C11: a clone is a new store with handles of its own, opened from the
\* original's descriptor; an original and its clone share no handle, and the
\* handles of a store on which Close was never called stay open and usable
\* when Close is called on the other.
CloneHandlesIndependent ==
    /\ ClonesShareNoHandle
    /\ \A s, t \in DOMAIN stores :
          (s # t /\ closeCalls[t] > 0 /\ closeCalls[s] = 0) =>
              \A h \in HandlesOf(s) : Usable(h)

\* ------------------------------------------------------------------ claims about store construction

\* The ways the tunnel set-up of openConnectionOverSSH fails: connectSSH fails
\* (authentication, dialling the SSH host) or createSSHTunnel fails (net.Listen).
TunnelFailures == {"sshFatal", "listenFatal"}

\* C12: when the last construction met a tunnel failure, the factory returned
\* an error and no store to its caller (who keeps running), and it opened no
\* pooled connection: the only pooled connections are those of the stores.
TunnelFailureFailsConstruction ==
    openOut \in TunnelFailures =>
        /\ ~exited
        /\ factoryRet.err
        /\ factoryRet.store = Nil
        /\ Cardinality({h \in DOMAIN handles : handles[h].kind = "pgDb"}) = Len(stores)

\* ------------------------------------------------------------------ claims about the resolver

\* C16: a URI that resolves yields an SSH configuration exactly when it has an
\* ssh_host parameter; its host is then that parameter's value, its port the
\* number written in ssh_port (0 when ssh_port is missing or not a number) and
\* its user and password the values of ssh_user and ssh_pwd (empty when
\* missing); without ssh_host no SSH configuration is returned whatever other
\* ssh_* parameters are given. A URI that does not resolve yields none.
TunnelDescriptorIffSshHost ==
    LET ps == dbUri.params IN
    /\ parsed.err = "nil" =>
          /\ ~parsed.dbNil
          /\ parsed.ssh.isNil = (ps["ssh_host"] = <<>>)
          /\ ps["ssh_host"] # <<>> =>
                /\ parsed.ssh.Host = ps["ssh_host"][1]
                /\ parsed.ssh.Port =
                      (IF ps["ssh_port"] = << <<"2", "2">> >> THEN 22
                       ELSE IF ps["ssh_port"] = << <<"0", "7">> >> THEN 7 ELSE 0)
                /\ parsed.ssh.Username = (IF ps["ssh_user"] = <<>> THEN "" ELSE ps["ssh_user"][1])
                /\ parsed.ssh.Password = (IF ps["ssh_pwd"] = <<>> THEN "" ELSE ps["ssh_pwd"][1])
          /\ ps["ssh_host"] = <<>> => parsed.ssh = NilSSHConfig
    /\ parsed.err \notin {"nil", "none"} => parsed.dbNil /\ parsed.ssh = NilSSHConfig
    /\ parsed.err = "nil" <=>
          (parsed # NotParsed /\ dbUri.parses /\ dbUri.scheme \in {"mysql", "MySQL"} /\ dbUri.hostPort)

\* A URI with ssh_port, ssh_user and ssh_pwd but no ssh_host resolved to no SSH
\* configuration.
TunnelDescriptorIffSshHostWitness ==
    /\ parsed.err = "nil"
    /\ dbUri.params["ssh_host"] = <<>>
    /\ dbUri.params["ssh_port"] # <<>>
    /\ dbUri.params["ssh_user"] # <<>>
    /\ dbUri.params["ssh_pwd"] # <<>>
    /\ parsed.ssh.isNil

\* The name a template resolves to when every placeholder token is replaced on
\* its own: {{accountId}} and {{0}} by the first key, {{i}} by the i-th key,
\* {{year}} and {{month}} by the clock's.
RECURSIVE KeyIndex(_, _, _)
KeyIndex(tok, n, i) ==
    IF i >= n THEN -1
    ELSE IF tok = "{{" \o ToString(i) \o "}}" THEN i ELSE KeyIndex(tok, n, i + 1)

ResolvedToken(tok, keys, clk) ==
    CASE tok = "{{accountId}}" -> keys[1]
      [] tok = "{{year}}" -> clk.year
      [] tok = "{{month}}" -> clk.month
      [] OTHER -> IF KeyIndex(tok, Len(keys), 0) >= 0
                    THEN keys[KeyIndex(tok, Len(keys), 0) + 1] ELSE tok

RECURSIVE Joined(_, _, _)
Joined(toks, keys, clk) ==
    IF toks = <<>> THEN ""
    ELSE ResolvedToken(Head(toks), keys, clk) \o Joined(Tail(toks), keys, clk)

\* C17: with at least one shard key tableName returns the template with
\* {{accountId}} replaced by the first key, {{i}} by the i-th key (0-based),
\* {{year}} by the current year and {{month}} by the current month, so
\* events_{{year}}_{{0}} with key acct1 gives events_<year>_acct1; with no shard
\* key it returns the template unchanged.
TableNameResolution ==
    tblName # "none" =>
        /\ tblArgs.keys # <<>> => tblName = Joined(tblArgs.table, tblArgs.keys, now)
        /\ tblArgs.keys = <<>> => tblName = Flatten(tblArgs.table)
        /\ (tblArgs.table = <<"events_", "{{year}}", "_", "{{0}}">> /\ tblArgs.keys = <<"acct1">>)
              => tblName = "events_" \o now.year \o "_acct1"

\* events_{{year}}_{{0}} with shard key acct1 was resolved.
TableNameResolutionWitness ==
    /\ tblArgs.table = <<"events_", "{{year}}", "_", "{{0}}">>
    /\ tblArgs.keys = <<"acct1">>
    /\ tblName = "events_2026_acct1"

\* ------------------------------------------------------------------ claims about the tunnel

Spliced(p) == p \in DOMAIN pairs /\ pairs[p].remote \notin {"dialing", "failed"}

\* C13: when the remote dial for an accepted local connection has failed, the
\* process keeps running and the accept goroutine is back in Accept: nothing
\* but that connection is affected.
PairFailureIsLocal ==
    \A p \in DOMAIN pairs :
        pairs[p].remote = "failed" =>
            /\ ~exited
            /\ acceptPc = "accept"

\* C14: while the remote dial for one accepted local connection has not
\* completed, the listener can accept a further local connection.
SlowDialDoesNotBlockAccept ==
    ( /\ ~exited
      /\ Len(pairs) < MaxConns
      /\ \E p \in DOMAIN pairs : pairs[p].remote = "dialing" )
    => ENABLED TunnelAccept

PairClosed(p) ==
    /\ p \in DOMAIN pairs
    /\ pairs[p].local = "closed"
    /\ pairs[p].remote = "closed"
    /\ pairs[p].up = "done"
    /\ pairs[p].down = "done"

RelayEnded(p) == Spliced(p) /\ (pairs[p].up # "copy" \/ pairs[p].down # "copy")

\* C15: both relay tasks of a spliced pair copy until one direction ends (no
\* connection of the pair is closed on this side before that); once a direction
\* has ended, both connections of the pair get closed and both relay tasks
\* terminate (at the latest when the process ends).
PairEventuallyClosed ==
    /\ [](\A p \in DOMAIN pairs :
            (Spliced(p) /\ ~RelayEnded(p)) =>
                pairs[p].local = "open" /\ pairs[p].remote = "open")
    /\ \A p \in 1..MaxConns : RelayEnded(p) ~> (exited \/ PairClosed(p))

\* Both pairs were spliced and are closed with all four relay tasks terminated,
\* the second after its remote-to-local copy ended first.
PairEventuallyClosedWitness ==
    /\ ~exited
    /\ Len(pairs) = MaxConns
    /\ \A p \in DOMAIN pairs : Spliced(p) /\ PairClosed(p)


IsPublish(x) == x[1] = "publish"
IsHanded(x) == x[1] = "publish" /\ x[4]
IsExec(x) == x[1] = "exec"
PublishCalls(log) == SelectSeq(log, IsPublish)
HandedEvents(log) == SelectSeq(log, IsHanded)
ExecEntries(log) == SelectSeq(log, IsExec)
SingleOps == {"Insert", "Update", "Upsert", "Delete"}

\* C1: on a store with a message bus, an Insert, Update, Upsert or Delete that
\* returns nil has handed exactly one event to the bus, an event is handed only
\* after the call's write statement completed without error, and a call that
\* returns an error has handed none.
PublishAfterWrite ==
    (call.op \in SingleOps /\ Bus = "bus") =>
        /\ \A k \in 1..Len(callLog) :
              IsPublish(callLog[k]) =>
                  /\ IsHanded(callLog[k])
                  /\ \E j \in 1..(k - 1) :
                        /\ IsExec(callLog[j])
                        /\ callLog[j][2] = call.op
                        /\ callLog[j][6] # "fail"
        /\ Len(HandedEvents(callLog)) <= 1
        /\ (pc = "done" /\ ret.err = "nil") => Len(HandedEvents(callLog)) = 1
        /\ (pc = "done" /\ ret.err # "nil") => Len(HandedEvents(callLog)) = 0

\* A Delete on a store with a bus returned nil after handing one event.
PublishAfterWriteWitness ==
    /\ pc = "done"
    /\ call.op = "Delete"
    /\ Bus = "bus"
    /\ ret.err = "nil"
    /\ Len(HandedEvents(callLog)) = 1
    /\ db # db0

\* C3: an Insert whose statement completed without a backend error but affected
\* zero rows returns a NoRowsAffected error.
InsertNoRowsIsError ==
    ( /\ pc = "done"
      /\ call.op = "Insert"
      /\ \E k \in 1..Len(callLog) : IsExec(callLog[k]) /\ callLog[k][6] # "fail" /\ callLog[k][7] = 0 )
    => ret.err = "NoRows"

\* The keys a caller passes for entity e: its shard key, if it has one.
ShardKeys(e) == IF e.key = "" THEN <<>> ELSE <<e.key>>

\* C4: after a successful Insert(e) of an entity with a non-empty id, Get of
\* e's id (with e's shard keys, if any) returns an entity equal to e; after a
\* successful Delete of an id, Get of that id returns a not-found error.
InsertGetDeleteGet ==
    (pc = "done" /\ ret.err = "nil") =>
        /\ (call.op = "Insert" /\ call.ents[1].id # "") =>
              Get(db, call.ents[1].id, ShardKeys(call.ents[1]), "ok") = Ret(call.ents[1], "nil", 0)
        /\ call.op = "Delete" =>
              Get(db, call.id, call.keys, "ok").err = "NotFound"

\* A step that makes one publishChange call.
PublishStep ==
    /\ Len(callLog') = Len(callLog) + 1
    /\ IsPublish(callLog'[Len(callLog')])

\* C5: a publishChange call changes neither the tables nor the values the
\* operation is about to return, whether the bus accepts the event or fails to
\* deliver it; and nothing is handed to the bus when the store has no bus or
\* the entity is nil.
DeliveryFailureIsSilent ==
    /\ [][PublishStep => (db' = db /\ txBuf' = txBuf /\ ret' = ret)]_vars
    /\ [](\A k \in 1..Len(callLog) : (IsPublish(callLog[k]) /\ Bus = "nil") => ~IsHanded(callLog[k]))
    /\ [](\A b \in BusValues, d \in BOOLEAN : ~IsHanded(PublishEntry(b, "UpdateEntity", NoEntity, d)))

\* A mutating call returned nil although the bus failed to deliver its event,
\* and its write is in the tables.
DeliveryFailureIsSilentWitness ==
    /\ pc = "done"
    /\ \E k \in 1..Len(callLog) : IsHanded(callLog[k]) /\ ~callLog[k][5]
    /\ ret.err = "nil"
    /\ db # db0
    /\ db = Replay(db0, callLog)

\* What Delete's preliminary fetch returned, from the tables at the call's start.
FetchOf(log) ==
    IF call.id = "" THEN Get(db0, call.id, call.keys, "ok")
    ELSE Get(db0, call.id, call.keys, log[1][4])

\* C7: when Delete's preliminary fetch fails (empty id, no row, query error,
\* decode error), Delete returns that error, issues no delete statement, leaves
\* the tables as they were and makes no publishChange call.
DeleteFetchFailure ==
    (call.op = "Delete" /\ pc # "fetch" /\ FetchOf(callLog).err # "nil") =>
        /\ pc = "done"
        /\ ret.err = FetchOf(callLog).err
        /\ ExecEntries(callLog) = <<>>
        /\ PublishCalls(callLog) = <<>>
        /\ db = db0

\* A Delete whose victim's document does not decode returned the decode error.
DeleteFetchFailureWitness ==
    /\ pc = "done"
    /\ call.op = "Delete"
    /\ FetchOf(callLog).err = "Decode"
    /\ ret.err = "Decode"

\* C2: if a per-entity statement of a BulkUpdate or BulkUpsert fails, then at the
\* call's return the tables are as they were before the call, the call returns
\* an error with affected count 0, and no publishChange call was made.
BulkFailureRollsBack ==
    ( /\ pc = "done"
      /\ call.op \in {"BulkUpdate", "BulkUpsert"}
      /\ \E k \in 1..Len(callLog) : IsExec(callLog[k]) /\ callLog[k][6] = "fail" )
    => ( /\ db = db0
         /\ ret.err # "nil"
         /\ ret.affected = 0
         /\ PublishCalls(callLog) = <<>> )

\* The entry that completes the write of a bulk operation.
IsBatchCommit(x) ==
    \/ x[1] = "execMulti" /\ x[6] = "ok"
    \/ x = <<"tx", "commit", "ok">>

\* C6: a BulkInsert, BulkUpdate or BulkUpsert that returns nil has made one
\* publishChange call per entity of the batch, in input order (each handed to
\* the bus when the store has one), all of them after the batch's statement
\* (BulkInsert) or commit (BulkUpdate, BulkUpsert) succeeded and no statement
\* after them; a call that returns an error has made none.
BulkPublishesInOrder ==
    call.op \in BulkOps =>
        LET P == PublishCalls(callLog) IN
        /\ \A k \in 1..Len(callLog) :
              IsPublish(callLog[k]) =>
                  /\ \E j \in 1..(k - 1) : IsBatchCommit(callLog[j])
                  /\ \A j \in (k + 1)..Len(callLog) : IsPublish(callLog[j])
                  /\ Bus = "bus" => IsHanded(callLog[k])
        /\ Len(P) <= Len(call.ents)
        /\ \A i \in 1..Len(P) :
              /\ P[i][3] = call.ents[i]
              /\ P[i][2] = BulkActionOf(call.op)
        /\ (pc = "done" /\ ret.err = "nil") => Len(P) = Len(call.ents)
        /\ (pc = "done" /\ ret.err # "nil") => P = <<>>

\* A BulkUpsert of two different entities on a store with a bus returned nil
\* after handing both events.
BulkPublishesInOrderWitness ==
    /\ pc = "done"
    /\ call.op = "BulkUpsert"
    /\ Len(call.ents) = 2
    /\ call.ents[1] # call.ents[2]
    /\ Bus = "bus"
    /\ ret.err = "nil"
    /\ Len(HandedEvents(callLog)) = 2

\* ------------------------------------------------------------------ claims about List, SetField, SetFields

\* The table the running call addresses.
CallTable == tableName(tmpl, call.keys)

\* The elements of a sequence.
Range(q) == {q[k] : k \in DOMAIN q}

\* C18: List with no ids returns an empty list and nil without a query; List
\* whose query succeeded returns nil and the decoded entities of exactly the
\* rows that match the ids and decode, whatever the position of an undecodable
\* row in the result set.
ListSkipsUndecodable ==
    (call.op = "List" /\ pc = "done") =>
        /\ call.ids = <<>> =>
              ret.list = <<>> /\ ret.err = "nil" /\ callLog = <<>>
        /\ (call.ids # <<>> /\ callLog[1][4] = "ok") =>
              LET decodable == {id \in Matching(db, CallTable, call.ids) : Decodes(db[CallTable][id])} IN
              /\ ret.err = "nil"
              /\ Range(ret.list) = {Unmarshal(db[CallTable][id]) : id \in decodable}
              /\ Len(ret.list) = Cardinality(decodable)

\* The entity stored for the call's id when the call started.
Before == Unmarshal(db0[CallTable][call.id])

GetErrors ==
    (call.op = "Get" /\ pc = "done") =>
        /\ call.id = "" => (ret.err = "EmptyId" /\ callLog = <<>>)
        /\ call.id # "" =>
              /\ Len(callLog) = 1 /\ callLog[1][1] = "query"
              /\ callLog[1][4] = "ok" =>
                    LET cell == db[CallTable][call.id] IN
                    /\ cell = NoRow => ret.err = "NotFound"
                    /\ (cell # NoRow /\ ~Decodes(cell)) => ret.err = "Decode"
                    /\ Decodes(cell) => (ret.err = "nil" /\ ret.ent = Unmarshal(cell))
        /\ ret.err # "nil" => ret.ent = NoEntity

\* Get of a row whose document does not decode has returned.
GetErrorsWitness ==
    /\ call.op = "Get"
    /\ pc = "done"
    /\ call.id \in RowIds
    /\ db[CallTable][call.id] = Corrupt
    /\ callLog[1][4] = "ok"
    /\ ret.err = "Decode"

\* ------------------------------------------------------------------ claims about BulkUpdate

FetchErr ==
    Get(db, call.id, call.keys, IF Len(callLog) >= 2 /\ callLog[2][1] = "query" THEN callLog[2][4] ELSE "ok").err

\* Whether the call's id had a row when the call started.
HadRow == call.id \in RowIds /\ db0[CallTable][call.id] # NoRow

\* C28: a SetField whose statement completed returns nil; when its id had no
\* row the tables are as before and no publishChange call was made; when its
\* re-read failed (query error, no row, undecodable row, empty id) no
\* publishChange call was made either.
SetFieldSilentOnMissingRow ==
    (call.op = "SetField" /\ pc = "done" /\ callLog[1][6] = "ok") =>
        /\ ret.err = "nil"
        /\ ~HadRow => (db = db0 /\ PublishCalls(callLog) = <<>>)
        /\ FetchErr # "nil" => PublishCalls(callLog) = <<>>
        /\ FetchErr = "nil" => Len(PublishCalls(callLog)) = 1

\* SetField on an id without a row, on a store with a bus, returned nil after
\* its statement and a re-read whose query succeeded.
SetFieldSilentOnMissingRowWitness ==
    /\ call.op = "SetField"
    /\ pc = "done"
    /\ Bus = "bus"
    /\ call.id \in RowIds
    /\ ~HadRow
    /\ Len(callLog) = 2
    /\ callLog[1][6] = "ok"
    /\ callLog[2][4] = "ok"
    /\ ret.err = "nil"

\* ------------------------------------------------------------------ claims about BulkDelete
IsQuery(x) == x[1] = "query"
IsExecMulti(x) == x[1] = "execMulti"

\* C22: a BulkDelete that returned: with no ids it issued no statement, made no
\* publishChange call and returned (0, nil); otherwise its first statement is
\* the query for the victims and it issued at most one deleting statement,
\* after that query; when that statement affected zero rows it returned an
\* error and made no publishChange call; when it returned nil it made one
\* publishChange call, for a delete, for each row it removed, carrying the
\* entity that row held.
BulkDeleteContract ==
    (call.op = "BulkDelete" /\ pc = "done") =>
        /\ call.ids = <<>> => (callLog = <<>> /\ ret.err = "nil" /\ ret.affected = 0)
        /\ call.ids # <<>> =>
              LET ex == SelectSeq(callLog, IsExecMulti)
                  pub == PublishCalls(callLog)
                  removed == {id \in RowIds : db0[CallTable][id] # NoRow /\ db[CallTable][id] = NoRow}
              IN /\ IsQuery(callLog[1])
                 /\ Len(ex) <= 1
                 /\ (ex # <<>> /\ ex[1][6] = "ok" /\ ex[1][7] = 0) => (ret.err # "nil" /\ pub = <<>>)
                 /\ ret.err # "nil" => pub = <<>>
                 /\ ret.err = "nil" =>
                       /\ Len(ex) = 1
                       /\ removed = Matching(db0, CallTable, call.ids)
                       /\ ret.affected = Cardinality(removed)
                       /\ Len(pub) = Cardinality(removed)
                       /\ \A k \in 1..Len(pub) : pub[k][2] = "DeleteEntity"
                       /\ \A id \in removed :
                             \E k \in 1..Len(pub) : Marshal(pub[k][3]) = db0[CallTable][id]

\* ------------------------------------------------------------------ claims about events under concurrent writes

\* C24: also with other callers writing in between, the event of a Delete
\* carries the entity held by the row at the moment its statement removes it,
\* and the event of a SetField carries the document its statement wrote.
EventCarriesWrittenState ==
    [][ /\ (call.op = "Delete" /\ pc = "delete" /\ pc' = "publish") =>
              Marshal(frame.deleted) = db[CallTable][call.id]
        /\ (call.op = "SetField" /\ pc = "setfetch" /\ Len(callLog') > Len(callLog)
              /\ IsPublish(callLog'[Len(callLog')])) =>
              /\ callLog[1][7] = 1
              /\ Marshal(callLog'[Len(callLog')][3]) = callLog[1][5] ]_vars

\* ------------------------------------------------------------------ claims about Close and the accept task

\* C25: the process keeps running when Close was called on a store that has a
\* tunnel: unless the last construction met a tunnel failure, no store's Close
\* is followed by the end of the process, and the handles of every store on
\* which Close was not called stay usable.
CloseStopsAcceptQuietly ==
    \A s \in DOMAIN stores :
        (stores[s].tunnel # Nil /\ closeCalls[s] > 0 /\ openOut \notin TunnelFailures) =>
            /\ ~exited
            /\ closeRet[s] \in {"none", "nil"}
            /\ \A t \in DOMAIN stores : closeCalls[t] = 0 => \A h \in HandlesOf(t) : Usable(h)

\* ------------------------------------------------------------------ claims about the table of an entity

\* C26: when a write operation resolved the table of an entity from the
\* entity's shard key (one key, tableName(entity.TABLE(), entity.KEY())), a read
\* or delete operation called with that key resolves the same name, and when
\* the key is empty so does one called with no keys, whatever the template.
WritesAndReadsResolveSameTable ==
    (tblName # "none" /\ Len(tblArgs.keys) = 1) =>
        LET key == tblArgs.keys[1] IN
        /\ tableName(tblArgs.table, <<key>>) = tblName
        /\ key = "" => tableName(tblArgs.table, <<>>) = tblName

\* ------------------------------------------------------------------ claims about the bus of a clone
\* C30: the store a CloneDatabase call adds has the bus of the store it was
\* called on, the store a CloneDatastore call adds has none; and a write made
\* on a store without a bus hands no event over, while a successful Upsert or
\* Delete made on a store with a bus hands over exactly one.
CloneBusContract ==
    /\ [][\A s \in DOMAIN stores :
            /\ (CloneDatabase(s) /\ Len(stores') > Len(stores)) =>
                  stores'[Len(stores')].bus = stores[s].bus
            /\ (CloneDatastore(s) /\ Len(stores') > Len(stores)) =>
                  stores'[Len(stores')].bus = "nil"]_vars
    /\ []((pc = "done" /\ stores[call.store].bus = "nil") => HandedEvents(callLog) = <<>>)
    /\ []((pc = "done" /\ stores[call.store].bus = "bus" /\ call.op \in {"Upsert", "Delete"}
             /\ ret.err = "nil") => Len(HandedEvents(callLog)) = 1)

\* An Upsert made on a clone without a bus of a store with a bus succeeded and
\* handed no event over.
CloneBusContractWitness ==
    /\ Len(stores) = 2
    /\ stores[1].bus = "bus"
    /\ stores[2].bus = "nil"
    /\ call.store = 2
    /\ call.op = "Upsert"
    /\ pc = "done"
    /\ ret.err = "nil"
    /\ Len(PublishCalls(callLog)) = 1
    /\ HandedEvents(callLog) = <<>>

\* ------------------------------------------------------------------ claims about BulkSetFields

\* The statements of call c that completed without error.
Completed(c, stmt) == \E k \in 1..Len(bsLog[c]) : bsLog[c][k][1] = stmt /\ bsLog[c][k][5] = "nil"

\* C21: when a BulkSetFields call that created its temporary table has
\* returned, whether it succeeded, its bulk load failed or its join-update
\* failed, the backend no longer holds the table the call created.
TempTableDroppedOnReturn ==
    \A c \in BulkSetCalls :
        (bsPc[c] = "done" /\ Completed(c, "create")) =>
            ~\E t \in temps : t[3] = c

\* Whether call c is between its first statement and its return.
BulkSetRunning(c) == bsPc[c] \in {"load", "update", "drop"}

\* C29: two BulkSetFields calls that are both running have different temporary
\* table names, and no statement of either addressed a table the other created.
ConcurrentTempTablesDistinct ==
    \A c, d \in BulkSetCalls :
        (c # d /\ BulkSetRunning(c) /\ BulkSetRunning(d)) =>
            /\ tmpTable[c] # tmpTable[d]
            /\ \A k \in 1..Len(bsLog[c]) : bsLog[c][k][4] # d

\* ------------------------------------------------------------------ claims about Ping without retries

\* C31: a Ping call with retries = 0 never probes the backend and never
\* sleeps, so its result does not depend on the backend's health, and when it
\* has returned it has returned an error.
PingZeroRetriesFails ==
    argRetries = 0 =>
        /\ pingLog = <<>>
        /\ pingRet # "nil"
        /\ pingPc = "done" => pingRet = "error"

\* Ping(0, interval) has returned.
PingZeroRetriesFailsWitness ==
    /\ argRetries = 0
    /\ pingPc = "done"
    /\ pingRet = "error"
    /\ Probes(pingLog) = <<>>
    /\ Sleeps(pingLog) = <<>>

====
